---- MODULE Spec2Model ----
(***************************************************************************)
(* Lexigram: law synchronisation / processing pipeline over a key-value    *)
(* store (app/services/dynamo_utils.py, app/services/law_tracker.py,       *)
(* app/main.py), the registry client's token management                    *)
(* (app/api_client.py) and the retry wrapper (app/errors/handlers.py).     *)
(*                                                                         *)
(* Ten specifications share the variables:                                 *)
(*   Spec        the store and the runs of the main workflow               *)
(*   SpecClient  LegifranceApiClient: token acquisition and request()      *)
(*   SpecRetry   the retry decorator applied to an arbitrary operation     *)
(*   SpecHttp    safe_request: HTTP exchanges under its retry loop         *)
(*   SpecPar     overlapping runs of the main workflow on one table        *)
(*   SpecPub     the Instagram publisher inside one run of main()          *)
(*   SpecSync    sync_new_entries_to_dynamodb over a list of laws          *)
(*   SpecNest    the retry wrappers nested around one HTTP request         *)
(*   SpecIg      InstagramTokenManager.ensure_valid_token                  *)
(*   SpecLive    repeated runs of main(), with fairness                    *)
(***************************************************************************)
EXTENDS Integers, Sequences, FiniteSets, TLC

VARIABLES
    \* ---- store and main workflow ----
    store,        \* the DynamoDB table: textId -> [date, isProcessed]
    pc,           \* position of the current run of main()
    runs,         \* number of runs of main() started so far
    lastLaw,      \* main(): last_unprocessed_law (NoLaw models Python None)
    scanItems,    \* the Items list the last table.scan returned, in scan order
    scanOk,       \* FALSE when the last table.scan raised ClientError
    selStatus,    \* get_last_unprocessed_law in this run: "notrun", "ok" or "TypeError"
    details,      \* main(): law_details fetched for lastLaw
    attempt,      \* retry(max_attempts=2) attempt of process_and_publish_law
    publishedId,  \* process_and_publish_law: published_id ("unset" before publish)
    commentOk,    \* history: FALSE when comment_on_post raised in this run
    posts,        \* history: textId -> number of posts published for it
    runMarked,    \* history: textIds update_processed_law_status was called on in this run
    storeOk,      \* return value of the last put_item / update_item
    runResult,    \* how the last finished run ended: "none", "success" or an error kind
    lambdaResponse, \* what handler() returned for the last finished run
    everProcessed,\* history: textIds whose record has had isProcessed = true
    \* ---- LegifranceApiClient ----
    now,          \* time.time(), in seconds
    token,        \* self.token: 0 is the statically supplied token, n > 0 the n-th acquired one
    tokenExpiry,  \* self.token_expiry (NoExpiry models None)
    tokenCalls,   \* history: number of _get_access_token invocations after construction
    acquiredAt,   \* history: time.time() when self.token was acquired (0: supplied)
    cpc,          \* position inside LegifranceApiClient.request
    hdrToken,     \* the token in the session's Authorization header
    cAttempt,     \* safe_request: attempt of the retry loop around _make_request
    cDelay,       \* safe_request: current_delay of that loop
    sent,         \* history: the last HTTP request sent: its token, that token's
                  \* expiry and acquisition time, and the time of sending
    req,          \* history: self.token, self.token_expiry, the time and the number of
                  \* _get_access_token calls when the current request() began
    ctorToken,    \* TRUE when the client was constructed with a token
    lastTokenCall,\* history: the last _get_access_token call: the token endpoint's
                  \* answer and the error kind the call raised ("None": it returned)
    \* ---- retry decorator ----
    policy,       \* the decorator's arguments
    rAttempt,     \* wrapper: attempt
    rDelay,       \* wrapper: current_delay
    rLast,        \* wrapper: last_exception (NoExc models None)
    rCalls,       \* history: number of invocations of func
    rSleeps,      \* history: the delays passed to time.sleep, in order
    rErrors,      \* history: the exceptions raised by the invocations of func, in order
    rOutcome,     \* what the wrapper call produced: "running", or a returned / raised record
    \* ---- safe_request ----
    responses,    \* history: what each HTTP exchange of safe_request produced, in order
    \* ---- overlapping runs of main() ----
    par,          \* run -> the local state of that run of main()
    parStarted,   \* number of overlapping runs started so far
    \* ---- publisher ----
    ppc,          \* position of the run: the step that is called next
    pArgs,        \* the arguments of the call being made (entry: which call)
    pOuter,       \* retry(max_attempts=2) attempt of process_and_publish_law
    pStep,        \* retry(max_attempts=3) attempt of the current publisher method
    pAttempts,    \* wait_for_media_processing: attempts
    pStatuses,    \* history: what each status poll of the current wait produced
    pCreationId,  \* publish(): creation_id, the n-th media object (0: none yet)
    pFinished,    \* history: creation ids for which a poll returned FINISHED
    pPostRequested, \* history: creation ids publish_post was requested for
    pCalls,       \* history: invocations of each publisher method's body in this run
    pStepFailed,  \* history: an error has left a publisher method in this run
    pLast,        \* history: the last body invocation: method, exchange, error raised
    pPublishedId, \* process_and_publish_law: published_id
    pPosted,      \* history: number of times publish_post returned during this run
    pMarks,       \* history: number of update_processed_law_status calls of this run
    pMarked,      \* history: update_processed_law_status was called
    pMessage,     \* history: the message of the last comment_on_post call
    pResult,      \* what the call produced: PubRunning, a return or an error
    \* ---- sync_new_entries_to_dynamodb ----
    syncLeft,     \* entries of text_lodas the loop has not handled yet
    syncCount,    \* sync_count
    syncAdded,    \* history: records added to the table during this pass
    syncPasses,   \* number of passes started so far
    \* ---- nested retry wrappers around one HTTP request ----
    nCall,        \* the publisher step or registry call being made ("none": not yet)
    nAtt,         \* attempt of the wrapper at each level, innermost first
    nHttp,        \* history: calls of requests.request so far
    nOutcome,     \* Running, returned or raised
    nAllRetryable, \* history: every exchange so far ended in a retried error
    \* ---- InstagramTokenManager ----
    igpc,         \* position inside ensure_valid_token ("idle": not running)
    igToken,      \* self.current_token
    igIssued,     \* history: number of tokens handed out so far
    igNew,        \* new_token / permanent_token
    igSecret,     \* the token stored in Secrets Manager
    igResult,     \* what the last call of ensure_valid_token produced
    igCalls,      \* number of calls of ensure_valid_token so far
    \* ---- repeated runs ----
    failing       \* the records whose processing fails in every run

storeVars  == <<store, pc, runs, commentOk, lastLaw, scanItems, scanOk, selStatus, details, attempt,
                publishedId, posts, runMarked, storeOk, runResult, lambdaResponse, everProcessed>>
clientVars == <<now, token, tokenExpiry, tokenCalls, acquiredAt, cpc, hdrToken, cAttempt,
                cDelay, sent, req, ctorToken, lastTokenCall>>
retryVars  == <<policy, rAttempt, rDelay, rLast, rCalls, rSleeps, rErrors, rOutcome>>
httpVars   == <<responses>>
parVars    == <<par, parStarted>>
pubVars    == <<ppc, pArgs, pOuter, pStep, pAttempts, pStatuses, pCreationId, pFinished,
                pPostRequested, pCalls, pStepFailed, pLast, pPublishedId, pPosted, pMarked, pMarks, pMessage,
                pResult>>
syncVars   == <<syncLeft, syncCount, syncAdded, syncPasses>>
nestVars   == <<nCall, nAtt, nHttp, nOutcome, nAllRetryable>>
igVars     == <<igpc, igToken, igIssued, igNew, igSecret, igResult, igCalls>>
liveVars   == <<failing>>
vars       == <<storeVars, clientVars, retryVars, httpVars, parVars, pubVars, syncVars, nestVars, igVars, liveVars>>

(***************************************************************************)
(* Bounds                                                                  *)
(***************************************************************************)
MaxRuns == 3
MaxTime == 6
MaxAttemptsBound == 3

(***************************************************************************)
(* Dates.  A stored date is a Python string (or None).  A string is        *)
(* modelled as the sequence of its fields, compared field by field from    *)
(* the left, as Python compares strings character by character.  The       *)
(* empty string is << >>.  None is the sentinel NoneDate.                  *)
(***************************************************************************)
NoneDate == <<0>>
EmptyDate == << >>

\* the text ids the registry can return, and the part of each id after "_"
TextIds == {"L1_21", "L2_12", "L3"}

\* law_id.split("_")[1] when "_" in law_id, else None.  The date part of an id
\* is written DD-MM-YYYY: its fields here are <<day, month>>, the year being the same
IdDatePart(law_id) ==
    CASE law_id = "L1_21" -> <<2, 1>>
      [] law_id = "L2_12" -> <<1, 2>>
      [] OTHER -> NoneDate

\* law.lastUpdate.isoformat() values of the registry's result items
LastUpdates == {<<1, 1>>}

\* Python's str < str
RECURSIVE StrLess(_, _)
StrLess(a, b) ==
    IF b = << >> THEN FALSE
    ELSE IF a = << >> THEN TRUE
    ELSE IF Head(a) < Head(b) THEN TRUE
    ELSE IF Head(a) > Head(b) THEN FALSE
    ELSE StrLess(Tail(a), Tail(b))

\* Python truthiness of a date value: None and "" are falsy
Truthy(d) == d # NoneDate /\ d # EmptyDate


(***************************************************************************)
(* The key-value store primitives (DynamoDBClient).  `ok` is FALSE when    *)
(* the boto3 call raises ClientError, which each primitive catches.        *)
(***************************************************************************)
NoItem == [none |-> TRUE]
NoLaw == [none |-> TRUE]

\* DynamoDBClient.get_item: the item, or None when absent or on ClientError
get_item(st, textId, ok) ==
    IF ok /\ textId \in DOMAIN st THEN st[textId] ELSE NoItem

\* DynamoDBClient.put_item: table.put_item replaces the whole item
put_item(st, textId, date, isProcessed, ok) ==
    IF ok
    THEN (textId :> [date |-> date, isProcessed |-> isProcessed]) @@ st
    ELSE st

\* update_item writing the attribute with the value False
update_item_false(st, textId, ok) ==
    IF ~ok THEN st
    ELSE IF textId \in DOMAIN st
         THEN [st EXCEPT ![textId].isProcessed = FALSE]
         ELSE (textId :> [date |-> NoneDate, isProcessed |-> FALSE]) @@ st

\* update_item whose write reaches the table although the call fails
update_item_applied(st, textId, ok) ==
    IF textId \in DOMAIN st
    THEN [st EXCEPT ![textId].isProcessed = TRUE]
    ELSE (textId :> [date |-> NoneDate, isProcessed |-> TRUE]) @@ st

\* DynamoDBClient.update_item with updates = {"isProcessed": True}:
\* table.update_item sets the attribute, creating the item when the key is
\* absent (the created item has no date attribute; it is processed, so no
\* scan with isProcessed = False ever returns it and its date is never read)
update_item(st, textId, ok) ==
    IF ~ok THEN st
    ELSE IF textId \in DOMAIN st
         THEN [st EXCEPT ![textId].isProcessed = TRUE]
         ELSE (textId :> [date |-> NoneDate, isProcessed |-> TRUE]) @@ st

\* DynamoDBClient.sync_new_law_to_dynamodb: the store after the call
sync_new_law_to_dynamodb(st, law_id, getOk, putOk) ==
    IF get_item(st, law_id, getOk) = NoItem
    THEN put_item(st, law_id, IdDatePart(law_id), FALSE, putOk)
    ELSE st

\* law_tracker.sync_new_loda_entries_to_dynamodb, body of the loop for one law
sync_loda_entry(st, text_id, date, getOk, putOk) ==
    IF get_item(st, text_id, getOk) # NoItem
    THEN st
    ELSE put_item(st, text_id, date, FALSE, putOk)

(***************************************************************************)
(* get_last_unprocessed_law                                                *)
(***************************************************************************)
Unprocessed(st) == {id \in DOMAIN st : ~st[id].isProcessed}
Processed(st) == {id \in DOMAIN st : st[id].isProcessed}

\* the orders in which table.scan may return the items of a set
ScanOrders(S) ==
    {f \in [1..Cardinality(S) -> S] : \A x \in S : \E i \in DOMAIN f : f[i] = x}

\* table.scan(FilterExpression=Attr("isProcessed").eq(False),
\*            ProjectionExpression="#textId, #date") in the order `order`
ScanResult(st, order) ==
    [i \in DOMAIN order |-> [textId |-> order[i], date |-> st[order[i]].date]]

\* insertion of x into a list sorted by date, after the items that are not
\* greater (sorted() is stable)
RECURSIVE InsertByDate(_, _)
InsertByDate(x, sortedItems) ==
    IF sortedItems = << >> THEN <<x>>
    ELSE IF StrLess(x.date, Head(sortedItems).date)
         THEN <<x>> \o sortedItems
         ELSE <<Head(sortedItems)>> \o InsertByDate(x, Tail(sortedItems))

\* sorted(items, key=lambda x: x.get("date", ""))
RECURSIVE SortedByDate(_)
SortedByDate(items) ==
    IF items = << >> THEN << >>
    ELSE InsertByDate(items[Len(items)], SortedByDate(SubSeq(items, 1, Len(items) - 1)))

\* The value get_last_unprocessed_law produces from the scanned Items:
\* [status |-> "ok", law |-> NoLaw or a law] or [status |-> "TypeError"]:
\* sorted() compares the keys with <, and a None key among two or more
\* items makes that comparison raise TypeError, which the method does not catch.
get_last_unprocessed_law(items) ==
    IF items = << >> THEN [status |-> "ok", law |-> NoLaw]
    ELSE IF Truthy(items[1].date)
         THEN IF \E i \in DOMAIN items : items[i].date = NoneDate
              THEN [status |-> "TypeError", law |-> NoLaw]
              ELSE [status |-> "ok", law |-> SortedByDate(items)[1]]
         ELSE [status |-> "ok", law |-> items[1]]


(***************************************************************************)
(* The main workflow (app/main.py).  One run of main() at a time.          *)
(***************************************************************************)
NoDetails == [none |-> TRUE]

\* no invocation has ended yet
NoLambdaResponse == [statusCode |-> 0, body |-> ""]

\* a handler that answers 200 whatever main() did
handler_always_ok(result) == [statusCode |-> 200, body |-> "Success"]

\* handler(event, context): 200 when main() returned, 500 with str(e) when it raised;
\* result is "success" or the kind of the error main() raised
handler(result) ==
    IF result = "success"
    THEN [statusCode |-> 200, body |-> "Success"]
    ELSE [statusCode |-> 500, body |-> result]

InitStore ==
    /\ store = << >>
    /\ pc = "idle"
    /\ runs = 0
    /\ commentOk = TRUE
    /\ lastLaw = NoLaw
    /\ scanItems = << >>
    /\ scanOk = TRUE
    /\ selStatus = "notrun"
    /\ details = NoDetails
    /\ attempt = 0
    /\ publishedId = "unset"
    /\ posts = [id \in TextIds |-> 0]
    /\ runMarked = {}
    /\ storeOk = TRUE
    /\ runResult = "none"
    /\ lambdaResponse = NoLambdaResponse
    /\ everProcessed = {}

\* main() returns or raises, and handler() answers: the invocation is over
EndRun(result) ==
    /\ pc' = "idle"
    /\ runResult' = result
    /\ lambdaResponse' = handler(result)

\* the check written as `if published_id is not None:`
PublishedIdNotNone(published_id) == published_id # "unset"

\* `if published_id:` of process_and_publish_law
PublishedIdTruthy(published_id) == published_id # "" /\ published_id # "unset"

\* a scheduled invocation of main()
StartRun ==
    /\ pc = "idle"
    /\ runs < MaxRuns
    /\ runs' = runs + 1
    /\ commentOk' = TRUE
    /\ pc' = "sync"
    /\ lastLaw' = NoLaw
    /\ scanItems' = << >>
    /\ scanOk' = TRUE
    /\ selStatus' = "notrun"
    /\ details' = NoDetails
    /\ attempt' = 0
    /\ publishedId' = "unset"
    /\ runMarked' = {}
    /\ runResult' = "none"
    /\ lambdaResponse' = NoLambdaResponse
    /\ UNCHANGED <<store, everProcessed, posts, storeOk>>
    /\ UNCHANGED <<clientVars, retryVars, httpVars, parVars, pubVars, syncVars, nestVars, igVars, liveVars>>

\* Step 1 of main(): the registry list request of the sync pass
SyncFetch(ok) ==
    /\ pc = "sync"
    /\ IF ok
       THEN /\ pc' = "syncing"
            /\ UNCHANGED <<runResult, lambdaResponse>>
       ELSE EndRun("DynamoDBError")
    /\ UNCHANGED <<store, everProcessed, runs, commentOk, lastLaw, scanItems, scanOk, selStatus, details, attempt,
                   publishedId, posts, runMarked, storeOk>>
    /\ UNCHANGED <<clientVars, retryVars, httpVars, parVars, pubVars, syncVars, nestVars, igVars, liveVars>>

\* the sync pass handles one law with DynamoDBClient.sync_new_law_to_dynamodb
SyncNewLaw(law_id, getOk, putOk) ==
    /\ pc = "syncing"
    /\ store' = sync_new_law_to_dynamodb(store, law_id, getOk, putOk)
    /\ everProcessed' = everProcessed \cup Processed(store')
    /\ storeOk' = IF get_item(store, law_id, getOk) = NoItem THEN putOk ELSE storeOk
    /\ UNCHANGED <<pc, runs, commentOk, lastLaw, scanItems, scanOk, selStatus, details, attempt,
                   publishedId, posts, runMarked, runResult, lambdaResponse>>
    /\ UNCHANGED <<clientVars, retryVars, httpVars, parVars, pubVars, syncVars, nestVars, igVars, liveVars>>

\* the sync pass handles one law with the loop body of
\* law_tracker.sync_new_loda_entries_to_dynamodb
SyncLodaEntry(text_id, date, getOk, putOk) ==
    /\ pc = "syncing"
    /\ store' = sync_loda_entry(store, text_id, date, getOk, putOk)
    /\ everProcessed' = everProcessed \cup Processed(store')
    /\ storeOk' = IF get_item(store, text_id, getOk) = NoItem THEN putOk ELSE storeOk
    /\ UNCHANGED <<pc, runs, commentOk, lastLaw, scanItems, scanOk, selStatus, details, attempt,
                   publishedId, posts, runMarked, runResult, lambdaResponse>>
    /\ UNCHANGED <<clientVars, retryVars, httpVars, parVars, pubVars, syncVars, nestVars, igVars, liveVars>>

\* the sync pass has handled every law of the response
SyncDone ==
    /\ pc = "syncing"
    /\ pc' = "select"
    /\ UNCHANGED <<store, everProcessed, runs, commentOk, lastLaw, scanItems, scanOk, selStatus, details, attempt,
                   publishedId, posts, runMarked, storeOk, runResult, lambdaResponse>>
    /\ UNCHANGED <<clientVars, retryVars, httpVars, parVars, pubVars, syncVars, nestVars, igVars, liveVars>>

\* Step 2 of main(): dynamo_client.get_last_unprocessed_law(); the scan
\* returns the unprocessed items in any order, or raises ClientError (~ok)
Select(ok) ==
    /\ pc = "select"
    /\ \E order \in ScanOrders(Unprocessed(store)) :
         LET items == IF ok THEN ScanResult(store, order) ELSE << >>
             r == IF ok THEN get_last_unprocessed_law(items)
                        ELSE [status |-> "ok", law |-> NoLaw]
         IN /\ scanItems' = items
            /\ scanOk' = ok
            /\ selStatus' = r.status
            /\ lastLaw' = r.law
            /\ IF r.status = "TypeError" THEN EndRun("DynamoDBError")
               ELSE IF r.law = NoLaw THEN EndRun("success")
               ELSE pc' = "fetch" /\ UNCHANGED <<runResult, lambdaResponse>>
    /\ UNCHANGED <<store, everProcessed, runs, commentOk, details, attempt, publishedId, posts,
                   runMarked, storeOk>>
    /\ UNCHANGED <<clientVars, retryVars, httpVars, parVars, pubVars, syncVars, nestVars, igVars, liveVars>>

\* Step 3 of main(): fetch_law_details_from_legifrance; LegiConsultRequest
\* requires a date, so a law without one cannot be fetched
FetchDetails(ok, hasArticles, hasCid) ==
    /\ pc = "fetch"
    /\ ok => Truthy(lastLaw.date)
    /\ IF ok
       THEN /\ details' = [articles |-> hasArticles, cid |-> hasCid]
            /\ attempt' = 1
            /\ pc' = "process"
            /\ UNCHANGED <<runResult, lambdaResponse>>
       ELSE /\ EndRun("LegifranceError")
            /\ UNCHANGED <<details, attempt>>
    /\ UNCHANGED <<store, everProcessed, runs, commentOk, lastLaw, scanItems, scanOk, selStatus, publishedId, posts,
                   runMarked, storeOk>>
    /\ UNCHANGED <<clientVars, retryVars, httpVars, parVars, pubVars, syncVars, nestVars, igVars, liveVars>>

\* update_processed_law_status: the return value of update_item is dropped
update_processed_law_status(ok) ==
    /\ store' = update_item(store, lastLaw.textId, ok)
    /\ everProcessed' = everProcessed \cup Processed(store')
    /\ storeOk' = ok
    /\ runMarked' = runMarked \cup {lastLaw.textId}

\* process_and_publish_law, the "No articles available to process" branch
ProcessNoArticles(ok) ==
    /\ pc = "process"
    /\ ~details.articles
    /\ update_processed_law_status(ok)
    /\ EndRun("success")
    /\ UNCHANGED <<runs, commentOk, lastLaw, scanItems, scanOk, selStatus, details, attempt,
                   publishedId, posts>>
    /\ UNCHANGED <<clientVars, retryVars, httpVars, parVars, pubVars, syncVars, nestVars, igVars, liveVars>>

\* process_and_publish_law, steps 1 and 2: clean the content, run the crew
ProcessContent(outcome) ==
    /\ pc = "process"
    /\ details.articles
    /\ IF outcome = "ok"
       THEN pc' = "publish" /\ UNCHANGED <<runResult, lambdaResponse>>
       ELSE EndRun(outcome)
    /\ UNCHANGED <<store, everProcessed, runs, commentOk, lastLaw, scanItems, scanOk, selStatus, details, attempt,
                   publishedId, posts, runMarked, storeOk>>
    /\ UNCHANGED <<clientVars, retryVars, httpVars, parVars, pubVars, syncVars, nestVars, igVars, liveVars>>

\* process_and_publish_law, step 3: Publisher(...).publish(image_url, caption).
\* A RateLimitError is re-raised unchanged and is retryable for the
\* retry(max_attempts=2) wrapper, which then starts the function again.
Publish(outcome) ==
    /\ pc = "publish"
    /\ CASE outcome = "id" ->
              /\ publishedId' = "id"
              /\ posts' = [posts EXCEPT ![lastLaw.textId] = @ + 1]
              /\ pc' = IF details.cid THEN "comment" ELSE "mark"
              /\ UNCHANGED <<attempt, runResult, lambdaResponse>>
         [] outcome = "empty" ->
              /\ publishedId' = ""
              /\ pc' = IF details.cid THEN "comment" ELSE "mark"
              /\ UNCHANGED <<attempt, posts, runResult, lambdaResponse>>
         [] outcome = "PublishingError" ->
              /\ EndRun("PublishingError")
              /\ UNCHANGED <<attempt, posts, publishedId>>
         [] OTHER ->
              /\ IF attempt < 2
                 THEN attempt' = attempt + 1 /\ pc' = "process" /\ UNCHANGED <<runResult, lambdaResponse>>
                 ELSE EndRun("RateLimitError") /\ UNCHANGED attempt
              /\ UNCHANGED <<posts, publishedId>>
    /\ UNCHANGED <<store, everProcessed, runs, commentOk, lastLaw, scanItems, scanOk, selStatus, details,
                   runMarked, storeOk>>
    /\ UNCHANGED <<clientVars, retryVars, httpVars, parVars, pubVars, syncVars, nestVars, igVars, liveVars>>

\* a comment step whose `except Exception` re-raises
AfterCommentRaising(ok) == IF ok THEN "mark" ELSE "raise"

\* where the run goes after publisher.comment_on_post returned (ok) or
\* raised: `except Exception` logs a warning and goes on
AfterComment(ok) == "mark"

\* publisher.comment_on_post: a failure is logged and swallowed
Comment(ok) ==
    /\ pc = "comment"
    /\ commentOk' = ok
    /\ IF AfterComment(ok) = "mark"
       THEN pc' = "mark" /\ UNCHANGED <<runResult, lambdaResponse>>
       ELSE EndRun("PublishingError")
    /\ UNCHANGED <<store, everProcessed, runs, lastLaw, scanItems, scanOk, selStatus, details, attempt,
                   publishedId, posts, runMarked, storeOk>>
    /\ UNCHANGED <<clientVars, retryVars, httpVars, parVars, pubVars, syncVars, nestVars, igVars, liveVars>>

\* "Mark as processed only if successfully published"
MarkProcessed(ok) ==
    /\ pc = "mark"
    /\ IF PublishedIdTruthy(publishedId)
       THEN /\ update_processed_law_status(ok)
            /\ EndRun("success")
       ELSE /\ EndRun("PublishingError")
            /\ UNCHANGED <<store, everProcessed, storeOk, runMarked>>
    /\ UNCHANGED <<runs, commentOk, lastLaw, scanItems, scanOk, selStatus, details, attempt,
                   publishedId, posts>>
    /\ UNCHANGED <<clientVars, retryVars, httpVars, parVars, pubVars, syncVars, nestVars, igVars, liveVars>>

NextStore ==
    \/ StartRun
    \/ \E ok \in BOOLEAN : SyncFetch(ok)
    \/ \E id \in TextIds, getOk \in BOOLEAN, putOk \in BOOLEAN :
           SyncNewLaw(id, getOk, putOk)
    \/ \E id \in TextIds, d \in LastUpdates, getOk \in BOOLEAN, putOk \in BOOLEAN :
           SyncLodaEntry(id, d, getOk, putOk)
    \/ SyncDone
    \/ \E ok \in BOOLEAN : Select(ok)
    \/ \E ok \in BOOLEAN, a \in BOOLEAN, c \in BOOLEAN : FetchDetails(ok, a, c)
    \/ \E ok \in BOOLEAN : ProcessNoArticles(ok)
    \/ \E o \in {"ok", "DataParsingError", "CrewError"} : ProcessContent(o)
    \/ \E o \in {"id", "empty", "PublishingError", "RateLimitError"} : Publish(o)
    \/ \E ok \in BOOLEAN : Comment(ok)
    \/ \E ok \in BOOLEAN : MarkProcessed(ok)


(***************************************************************************)
(* Exceptions (app/errors/exceptions.py and the requests library).         *)
(* An exception value is [kind, retry_after, status, header, id]:          *)
(*   retry_after  RateLimitError.retry_after (NoHint models None)          *)
(*   status       status code of the response attached to a raw            *)
(*                requests.HTTPError (NoResponse when none is attached)    *)
(*   header       that response's Retry-After header, when all digits      *)
(*   id           the invocation of the operation that raised it           *)
(***************************************************************************)
NoHint == -1
NoResponse == 0

\* the base class of each exception class
Parent ==
    [LexigramError |-> "Exception", APIError |-> "LexigramError",
     AuthenticationError |-> "APIError", RateLimitError |-> "APIError",
     NetworkError |-> "APIError", TimeoutError |-> "NetworkError",
     ServerError |-> "APIError", ClientError |-> "APIError",
     ResourceNotFoundError |-> "ClientError", ValidationError |-> "ClientError",
     DataError |-> "LexigramError", DataParsingError |-> "DataError",
     DataIntegrityError |-> "DataError", LegifranceError |-> "APIError",
     InstagramError |-> "APIError", DynamoDBError |-> "APIError",
     CrewError |-> "LexigramError", ProcessingError |-> "LexigramError",
     PublishingError |-> "ProcessingError",
     RequestException |-> "Exception", ConnectionError |-> "RequestException",
     Timeout |-> "RequestException", HTTPError |-> "RequestException",
     Exception |-> "Exception"]

\* isinstance(e, cls) for an exception of class kind
RECURSIVE IsInstance(_, _)
IsInstance(kind, cls) ==
    \/ kind = cls
    \/ kind # "Exception" /\ IsInstance(Parent[kind], cls)

\* a default list that names the base class APIError
retryable_exceptions_with_base ==
    {"APIError", "ConnectionError", "Timeout", "HTTPError"}

\* retry(): the default retryable_exceptions
retryable_exceptions ==
    {"NetworkError", "TimeoutError", "ServerError", "RateLimitError",
     "ConnectionError", "Timeout", "HTTPError"}

\* retry(): the default retryable_status_codes
retryable_status_codes == {408, 429, 500, 502, 503, 504}

\* `except tuple(retryable_exceptions) as e` catches e
Caught(e) == \E cls \in retryable_exceptions : IsInstance(e.kind, cls)

\* bool(response) for the response of a requests.HTTPError: None is falsy,
\* and requests.Response.__bool__ is Response.ok, False for 400..599
ResponseTruthy(status) == status # NoResponse /\ ~(400 <= status /\ status < 600)

Min(a, b) == IF a < b THEN a ELSE b

\* the RateLimitError check left out: the hint is ignored
DelayIgnoringRateLimit(e, current_delay) == current_delay

\* current_delay after the RateLimitError check of the wrapper
DelayAfterRateLimit(e, current_delay) ==
    IF IsInstance(e.kind, "RateLimitError") /\ e.retry_after # NoHint
    THEN e.retry_after
    ELSE current_delay

\* the wrapper re-raises a requests.HTTPError whose status is not retryable
NonRetryableStatus(e) ==
    /\ IsInstance(e.kind, "HTTPError")
    /\ ResponseTruthy(e.status)
    /\ e.status \notin retryable_status_codes

\* current_delay after the Retry-After header check of the wrapper
DelayAfterHeader(e, current_delay) ==
    IF /\ IsInstance(e.kind, "HTTPError")
       /\ ResponseTruthy(e.status)
       /\ e.header # NoHint
    THEN e.header
    ELSE current_delay

\* the test written as `attempt + 1 < max_attempts`
AttemptsRemainOffByOne(att, max_attempts) == att + 1 < max_attempts

\* `if attempt < max_attempts`: sleep and go on, else re-raise
AttemptsRemain(att, max_attempts) == att < max_attempts

\* The except clause of the wrapper for exception e raised in attempt att:
\* [raise |-> TRUE] or [raise |-> FALSE, sleep |-> d, delay |-> next current_delay]
HandleException(pol, att, current_delay, e) ==
    LET d1 == DelayAfterRateLimit(e, current_delay)
        d2 == DelayAfterHeader(e, d1)
    IN IF ~Caught(e) THEN [raise |-> TRUE, sleep |-> 0, delay |-> current_delay]
       ELSE IF NonRetryableStatus(e) THEN [raise |-> TRUE, sleep |-> 0, delay |-> d1]
       ELSE IF AttemptsRemain(att, pol.max_attempts)
            THEN [raise |-> FALSE, sleep |-> d2,
                  delay |-> Min(d2 * pol.backoff_factor, pol.max_delay)]
            ELSE [raise |-> TRUE, sleep |-> 0, delay |-> d2]

(***************************************************************************)
(* The retry decorator around an arbitrary operation (SpecRetry).          *)
(***************************************************************************)
NoExc == [kind |-> "None"]
Running == [kind |-> "running"]

\* the decorator arguments explored
Policies ==
    [max_attempts : 0..MaxAttemptsBound, retry_delay : {1, 2},
     backoff_factor : {2}, max_delay : {1, 3, 60}]

\* what one invocation of the wrapped operation can raise
Raisable ==
    [kind : {"NetworkError", "TimeoutError", "ServerError", "ConnectionError",
             "Timeout", "ValidationError", "AuthenticationError",
             "DataParsingError", "LegifranceError"},
     retry_after : {NoHint}, status : {NoResponse}, header : {NoHint}]
    \cup [kind : {"RateLimitError"}, retry_after : {NoHint, 0, 7},
          status : {NoResponse}, header : {NoHint}]
    \cup [kind : {"HTTPError"}, retry_after : {NoHint},
          status : {NoResponse, 302, 404, 503}, header : {NoHint, 5}]

WithId(e, n) ==
    [kind |-> e.kind, retry_after |-> e.retry_after, status |-> e.status,
     header |-> e.header, id |-> n]

\* the wrapper is entered: last_exception = None, current_delay = retry_delay
WrapperEntered ==
    /\ rAttempt = 1
    /\ rDelay = policy.retry_delay
    /\ rLast = NoExc
    /\ rCalls = 0
    /\ rSleeps = << >>
    /\ rErrors = << >>
    /\ rOutcome = Running

InitRetry ==
    /\ policy \in Policies
    /\ WrapperEntered

\* the loop `for attempt in range(1, max_attempts + 1)` has an iteration left
LoopContinues(att, max_attempts) == att <= max_attempts

\* one iteration of the loop in which func returns a value
WrapperReturns ==
    /\ rOutcome = Running
    /\ LoopContinues(rAttempt, policy.max_attempts)
    /\ rCalls' = rCalls + 1
    /\ rOutcome' = [kind |-> "returned", by |-> rCalls + 1]
    /\ UNCHANGED <<policy, rAttempt, rDelay, rLast, rSleeps, rErrors>>

RetryReturn ==
    /\ WrapperReturns
    /\ UNCHANGED <<storeVars, clientVars, httpVars, parVars, pubVars, syncVars, nestVars, igVars, liveVars>>

\* one iteration of the loop in which func raises exc
WrapperHandles(exc) ==
    /\ rOutcome = Running
    /\ LoopContinues(rAttempt, policy.max_attempts)
    /\ LET e == WithId(exc, rCalls + 1)
           h == HandleException(policy, rAttempt, rDelay, e)
       IN /\ rCalls' = rCalls + 1
          /\ rErrors' = Append(rErrors, e)
          /\ rLast' = IF Caught(e) THEN e ELSE rLast
          /\ rDelay' = h.delay
          /\ IF h.raise
             THEN /\ rOutcome' = [kind |-> "raised", exc |-> e]
                  /\ UNCHANGED <<rAttempt, rSleeps>>
             ELSE /\ rSleeps' = Append(rSleeps, h.sleep)
                  /\ rAttempt' = rAttempt + 1
                  /\ UNCHANGED rOutcome
    /\ UNCHANGED policy

RetryRaise(exc) ==
    /\ WrapperHandles(exc)
    /\ UNCHANGED <<storeVars, clientVars, httpVars, parVars, pubVars, syncVars, nestVars, igVars, liveVars>>

\* after the loop: "This should never be reached, but just in case"
RetryFallThrough ==
    /\ rOutcome = Running
    /\ ~LoopContinues(rAttempt, policy.max_attempts)
    /\ rOutcome' = IF rLast # NoExc
                   THEN [kind |-> "raised", exc |-> rLast]
                   ELSE [kind |-> "returnedNone"]
    /\ UNCHANGED <<policy, rAttempt, rDelay, rLast, rCalls, rSleeps, rErrors>>
    /\ UNCHANGED <<storeVars, clientVars, httpVars, parVars, pubVars, syncVars, nestVars, igVars, liveVars>>

NextRetry ==
    \/ RetryReturn
    \/ \E exc \in Raisable : RetryRaise(exc)
    \/ RetryFallThrough


(***************************************************************************)
(* safe_request (SpecHttp): _make_request under retry(max_attempts=3).     *)
(* An HTTP exchange is [transport, status, header]: transport is "ok"      *)
(* when a response arrived, else the requests exception raised; status is  *)
(* the response's status code; header is its Retry-After header ("" when   *)
(* the header is absent).                                                  *)
(***************************************************************************)
\* the arguments safe_request passes to retry: retry(max_attempts=3)
SafeRequestPolicy ==
    [max_attempts |-> 3, retry_delay |-> 1, backoff_factor |-> 2, max_delay |-> 60]

\* the status codes the server answers with
Statuses == {200, 204, 304, 401, 403, 404, 408, 422, 429, 500, 501, 503}

\* Retry-After header values: absent, digits, an HTTP date
RetryAfterHeaders == {"", "0", "7", "Wed, 21 Oct 2026 07:28:00 GMT"}

\* str.isdigit() of a header value
IsDigit(h) == h \in {"0", "7"}

\* int() of an all-digit header value
IntOf(h) == IF h = "0" THEN 0 ELSE 7

\* what requests.request(method, url, **kwargs) can produce
Exchanges ==
    [transport : {"ok"}, status : Statuses, header : {""}]
    \cup [transport : {"ok"}, status : {429, 503}, header : RetryAfterHeaders]
    \cup [transport : {"ConnectionError", "Timeout", "RequestException"},
          status : {NoResponse}, header : {""}]

\* response.raise_for_status() raises requests.HTTPError
RaisesForStatus(status) == 400 <= status /\ status < 600

\* an exception of class kind without retry hint or attached response
PlainError(kind) ==
    [kind |-> kind, retry_after |-> NoHint, status |-> NoResponse, header |-> NoHint]

\* classify_http_error(response, api_name)
classify_http_error(status, header) ==
    IF status = 401 THEN PlainError("AuthenticationError")
    ELSE IF status = 403 THEN PlainError("AuthenticationError")
    ELSE IF status = 404 THEN PlainError("ResourceNotFoundError")
    ELSE IF status = 422 THEN PlainError("ValidationError")
    ELSE IF status = 429
         THEN [kind |-> "RateLimitError",
               retry_after |-> IF header # "" /\ IsDigit(header) THEN IntOf(header)
                                                                ELSE NoHint,
               status |-> NoResponse, header |-> NoHint]
    ELSE IF 400 <= status /\ status < 500 THEN PlainError("ClientError")
    ELSE IF 500 <= status /\ status < 600 THEN PlainError("ServerError")
    ELSE PlainError("APIError")

\* _make_request returns the response of exchange x
MakeRequestReturns(x) == x.transport = "ok" /\ ~RaisesForStatus(x.status)

\* the exception _make_request raises for exchange x
MakeRequestError(x) ==
    IF x.transport = "ok" THEN classify_http_error(x.status, x.header)
    ELSE IF x.transport = "ConnectionError" THEN PlainError("NetworkError")
    ELSE IF x.transport = "Timeout" THEN PlainError("TimeoutError")
    ELSE PlainError("APIError")

InitHttp ==
    /\ policy = SafeRequestPolicy
    /\ WrapperEntered
    /\ responses = << >>

\* an attempt of safe_request whose exchange x makes _make_request return
HttpReturn(x) ==
    /\ MakeRequestReturns(x)
    /\ WrapperReturns
    /\ responses' = Append(responses, x)
    /\ UNCHANGED <<storeVars, clientVars, parVars, pubVars, syncVars, nestVars, igVars, liveVars>>

\* an attempt of safe_request whose exchange x makes _make_request raise
HttpRaise(x) ==
    /\ ~MakeRequestReturns(x)
    /\ WrapperHandles(MakeRequestError(x))
    /\ responses' = Append(responses, x)
    /\ UNCHANGED <<storeVars, clientVars, parVars, pubVars, syncVars, nestVars, igVars, liveVars>>

NextHttp ==
    \/ \E x \in Exchanges : HttpReturn(x)
    \/ \E x \in Exchanges : HttpRaise(x)


(***************************************************************************)
(* LegifranceApiClient (SpecClient).  Time is in whole seconds.            *)
(***************************************************************************)
\* time.time() when the client is constructed
StartTime == 100
\* "subtract a safety margin (e.g., 60 seconds)"
SafetyMargin == 60
\* the expires_in values the token endpoint answers with
ExpiresIn == {59, 61, 62, 3600}
\* at most this many token acquisitions after construction
MaxTokenCalls == 3

\* self.token_expiry = None; 0 is falsy like None and no real expiry is 0
NoExpiry == 0
NoSent == [none |-> TRUE]
NoRequest == [expiry |-> NoExpiry, at |-> 0, callsBefore |-> 0, tokenBefore |-> 0]

\* what _make_request raises for a failed HTTP exchange
RequestErrors ==
    [kind : {"NetworkError", "TimeoutError", "ServerError", "ValidationError",
             "AuthenticationError"},
     retry_after : {NoHint}, status : {NoResponse}, header : {NoHint}, id : {0}]
    \cup [kind : {"RateLimitError"}, retry_after : {NoHint, 3},
          status : {NoResponse}, header : {NoHint}, id : {0}]

\* __init__: self.token_expiry for a client built with `token`
StaticTokenExpiry == NoExpiry

\* _get_access_token: self.token_expiry = time.time() + expires_in - 60
AcquiredExpiry(t, expires_in) == t + expires_in - SafetyMargin

\* the expiry test without the `self.token_expiry and` guard
TokenExpiredUnguarded(expiry, t) == t > expiry

\* _ensure_token: `if self.token_expiry and time.time() > self.token_expiry`
TokenExpired(expiry, t) == expiry # NoExpiry /\ t > expiry

\* a refresh that leaves the session's Authorization header as it was
StaleHeader(newToken, oldHeader) == oldHeader

\* _ensure_token: the Authorization header after a refresh
RefreshedHeader(newToken, oldHeader) == newToken

\* what the token endpoint exchange of _get_access_token produces: a JSON
\* body with an access_token, without one, with the string "null", a body
\* that is not JSON, or the error safe_request raised
TokenAnswers ==
    {"ok", "no_token", "null_token", "nonjson"} \cup {e.kind : e \in RequestErrors}
NoTokenCall == [answer |-> "none", raised |-> "None"]

\* an except clause that wraps every LexigramError but AuthenticationError
WrapTokenErrorBroad(k) ==
    IF IsInstance(k, "LexigramError") /\ ~IsInstance(k, "AuthenticationError")
    THEN "LegifranceError"
    ELSE k

\* _get_access_token: `except APIError as e`, wrapped in LegifranceError
\* unless it is an AuthenticationError
WrapTokenError(k) ==
    IF IsInstance(k, "APIError") /\ ~IsInstance(k, "AuthenticationError")
    THEN "LegifranceError"
    ELSE k

\* _get_access_token: the error kind its body raises ("None": it returns the token)
get_access_token(answer) ==
    CASE answer = "ok" -> "None"
      [] answer \in {"no_token", "null_token"} -> WrapTokenError("AuthenticationError")
      [] answer = "nonjson" -> WrapTokenError("DataParsingError")
      [] OTHER -> WrapTokenError(answer)

\* the error leaves the retry(max_attempts=3) wrapper of _get_access_token
\* at once: no kind the body raises is retryable
TokenCallRaises(answer) ==
    LET k == get_access_token(answer)
    IN k # "None" /\ ~Caught([kind |-> k])

\* __init__ has returned: no request yet
Constructed ==
    /\ tokenCalls = 0
    /\ cpc = "idle"
    /\ hdrToken = token
    /\ cAttempt = 0
    /\ cDelay = 0
    /\ sent = NoSent
    /\ req = NoRequest

\* __init__ raised: there is no client object to make requests with
NotConstructed ==
    /\ tokenCalls = 0
    /\ cpc = "noclient"
    /\ hdrToken = 0
    /\ cAttempt = 0
    /\ cDelay = 0
    /\ sent = NoSent
    /\ req = NoRequest

\* __init__ with a token, or with client credentials (one _get_access_token
\* call, whose error leaves __init__)
InitClient ==
    /\ now = StartTime
    /\ ctorToken \in BOOLEAN
    /\ IF ctorToken
       THEN /\ token = 0 /\ tokenExpiry = StaticTokenExpiry /\ acquiredAt = 0
            /\ lastTokenCall = NoTokenCall
            /\ Constructed
       ELSE \E answer \in TokenAnswers :
            /\ lastTokenCall = [answer |-> answer, raised |-> get_access_token(answer)]
            /\ IF TokenCallRaises(answer)
               THEN /\ token = 0 /\ tokenExpiry = NoExpiry /\ acquiredAt = 0
                    /\ NotConstructed
               ELSE /\ token = 1
                    /\ \E x \in ExpiresIn : tokenExpiry = AcquiredExpiry(now, x)
                    /\ acquiredAt = now
                    /\ Constructed

\* time passes between two requests
Tick(d) ==
    /\ cpc = "idle"
    /\ now + d <= StartTime + MaxTime
    /\ now' = now + d
    /\ UNCHANGED <<ctorToken, lastTokenCall, token, tokenExpiry, tokenCalls, acquiredAt, cpc,
                   hdrToken, cAttempt, cDelay, sent, req>>
    /\ UNCHANGED <<storeVars, retryVars, httpVars, parVars, pubVars, syncVars, nestVars, igVars, liveVars>>

\* request(): self._ensure_token() finds the token fresh enough, and the
\* session headers are copied for safe_request
RequestFresh ==
    /\ cpc = "idle"
    /\ now <= StartTime + MaxTime
    /\ ~TokenExpired(tokenExpiry, now)
    /\ req' = [expiry |-> tokenExpiry, at |-> now, callsBefore |-> tokenCalls,
               tokenBefore |-> token]
    /\ sent' = NoSent
    /\ cpc' = "send"
    /\ cAttempt' = 1
    /\ cDelay' = SafeRequestPolicy.retry_delay
    /\ UNCHANGED <<now, ctorToken, lastTokenCall, token, tokenExpiry, tokenCalls, acquiredAt,
                   hdrToken>>
    /\ UNCHANGED <<storeVars, retryVars, httpVars, parVars, pubVars, syncVars, nestVars, igVars, liveVars>>

\* request(): self._ensure_token() refreshes the token; when
\* _get_access_token raises, the error leaves request() (LegifranceError,
\* AuthenticationError and DataParsingError are not retryable)
RequestRefresh(answer, expires_in) ==
    /\ cpc = "idle"
    /\ now <= StartTime + MaxTime
    /\ tokenCalls < MaxTokenCalls
    /\ TokenExpired(tokenExpiry, now)
    /\ tokenCalls' = tokenCalls + 1
    /\ req' = [expiry |-> tokenExpiry, at |-> now, callsBefore |-> tokenCalls,
               tokenBefore |-> token]
    /\ sent' = NoSent
    /\ lastTokenCall' = [answer |-> answer, raised |-> get_access_token(answer)]
    /\ IF ~TokenCallRaises(answer)
       THEN /\ token' = token + 1
            /\ tokenExpiry' = AcquiredExpiry(now, expires_in)
            /\ acquiredAt' = now
            /\ hdrToken' = RefreshedHeader(token + 1, hdrToken)
            /\ cpc' = "send"
            /\ cAttempt' = 1
            /\ cDelay' = SafeRequestPolicy.retry_delay
       ELSE UNCHANGED <<token, tokenExpiry, acquiredAt, hdrToken, cpc, cAttempt,
                        cDelay>>
    /\ UNCHANGED <<now, ctorToken>>
    /\ UNCHANGED <<storeVars, retryVars, httpVars, parVars, pubVars, syncVars, nestVars, igVars, liveVars>>

\* safe_request: _make_request sends the HTTP request and the registry
\* answers with a 2xx response
SendOk ==
    /\ cpc = "send"
    /\ sent' = [token |-> hdrToken, expiry |-> tokenExpiry, at |-> now,
                acquiredAt |-> acquiredAt]
    /\ cpc' = "idle"
    /\ UNCHANGED <<now, ctorToken, lastTokenCall, token, tokenExpiry, tokenCalls, acquiredAt,
                   hdrToken, cAttempt, cDelay, req>>
    /\ UNCHANGED <<storeVars, retryVars, httpVars, parVars, pubVars, syncVars, nestVars, igVars, liveVars>>

\* safe_request: _make_request sends the HTTP request and raises e; the
\* retry loop of safe_request sleeps and sends again, or re-raises
SendFail(e) ==
    /\ cpc = "send"
    /\ sent' = [token |-> hdrToken, expiry |-> tokenExpiry, at |-> now,
                acquiredAt |-> acquiredAt]
    /\ LET h == HandleException(SafeRequestPolicy, cAttempt, cDelay, e)
       IN IF h.raise
          THEN /\ cpc' = "idle"
               /\ UNCHANGED <<now, cAttempt, cDelay>>
          ELSE /\ now' = now + h.sleep
               /\ cAttempt' = cAttempt + 1
               /\ cDelay' = h.delay
               /\ UNCHANGED cpc
    /\ UNCHANGED <<ctorToken, lastTokenCall, token, tokenExpiry, tokenCalls, acquiredAt,
                   hdrToken, req>>
    /\ UNCHANGED <<storeVars, retryVars, httpVars, parVars, pubVars, syncVars, nestVars, igVars, liveVars>>

NextClient ==
    \/ \E d \in 1..2 : Tick(d)
    \/ RequestFresh
    \/ \E a \in TokenAnswers, x \in ExpiresIn : RequestRefresh(a, x)
    \/ SendOk
    \/ \E e \in RequestErrors : SendFail(e)

(***************************************************************************)
(* Overlapping runs of main() on the same table (SpecPar).  Each run has   *)
(* its own local state par[p]; the table and the published posts are       *)
(* shared.  A step is one store operation or one external call of a run.   *)
(***************************************************************************)
\* the overlapping invocations of the handler
Runs == {1, 2}
MaxParRuns == 2

\* the variables of the single-run workflow that SpecPar leaves alone
runVars == <<pc, runs, commentOk, lastLaw, scanItems, scanOk, selStatus, details, attempt,
             publishedId, runMarked, storeOk, runResult, lambdaResponse>>

\* the local state of a run that is not executing: main() has not started,
\* or it has returned or raised
IdleRun ==
    [pc |-> "idle", pending |-> NoItem, lastLaw |-> NoLaw, details |-> NoDetails,
     attempt |-> 0, publishedId |-> "unset"]

InitPar ==
    /\ par = [p \in Runs |-> IdleRun]
    /\ parStarted = 0

\* a select that marks the record it returns, so that no other run selects it
StoreAfterSelectClaiming(st, law) ==
    IF law = NoLaw THEN st ELSE update_item(st, law.textId, TRUE)

\* get_last_unprocessed_law only reads the table: the table after it
StoreAfterSelect(st, law) == st

\* main() starts; Step 1 requests the list of laws from the registry
ParStart(p, ok) ==
    /\ par[p].pc = "idle"
    /\ parStarted < MaxParRuns
    /\ parStarted' = parStarted + 1
    /\ par' = [par EXCEPT ![p] = [IdleRun EXCEPT !.pc = IF ok THEN "syncing" ELSE "idle"]]
    /\ UNCHANGED <<store, posts, everProcessed, runVars>>
    /\ UNCHANGED <<clientVars, retryVars, httpVars, pubVars, syncVars, nestVars, igVars, liveVars>>

\* sync_new_law_to_dynamodb: existing_item = self.get_item(...)
ParSyncCheck(p, law_id, getOk) ==
    /\ par[p].pc = "syncing"
    /\ par' = [par EXCEPT ![p] =
                 IF get_item(store, law_id, getOk) = NoItem
                 THEN [@ EXCEPT !.pc = "put",
                                !.pending = [textId |-> law_id, date |-> IdDatePart(law_id),
                                             absentAtCheck |-> law_id \notin DOMAIN store]]
                 ELSE @]
    /\ UNCHANGED <<store, posts, everProcessed, runVars, parStarted>>
    /\ UNCHANGED <<clientVars, retryVars, httpVars, pubVars, syncVars, nestVars, igVars, liveVars>>

\* law_tracker: existing_law = get_law_from_dynamodb(...)
ParSyncLodaCheck(p, text_id, date, getOk) ==
    /\ par[p].pc = "syncing"
    /\ par' = [par EXCEPT ![p] =
                 IF get_item(store, text_id, getOk) = NoItem
                 THEN [@ EXCEPT !.pc = "put",
                                !.pending = [textId |-> text_id, date |-> date,
                                             absentAtCheck |-> text_id \notin DOMAIN store]]
                 ELSE @]
    /\ UNCHANGED <<store, posts, everProcessed, runVars, parStarted>>
    /\ UNCHANGED <<clientVars, retryVars, httpVars, pubVars, syncVars, nestVars, igVars, liveVars>>

\* the put_item that follows a check which found no record
ParSyncPut(p, putOk) ==
    /\ par[p].pc = "put"
    /\ store' = put_item(store, par[p].pending.textId, par[p].pending.date, FALSE, putOk)
    /\ everProcessed' = everProcessed \cup Processed(store')
    /\ par' = [par EXCEPT ![p] = [@ EXCEPT !.pc = "syncing", !.pending = NoItem]]
    /\ UNCHANGED <<posts, runVars, parStarted>>
    /\ UNCHANGED <<clientVars, retryVars, httpVars, pubVars, syncVars, nestVars, igVars, liveVars>>

\* the sync pass has handled every law of the response
ParSyncDone(p) ==
    /\ par[p].pc = "syncing"
    /\ par' = [par EXCEPT ![p] = [@ EXCEPT !.pc = "select"]]
    /\ UNCHANGED <<store, posts, everProcessed, runVars, parStarted>>
    /\ UNCHANGED <<clientVars, retryVars, httpVars, pubVars, syncVars, nestVars, igVars, liveVars>>

\* Step 2 of main(): dynamo_client.get_last_unprocessed_law()
ParSelect(p, ok) ==
    /\ par[p].pc = "select"
    /\ \E order \in ScanOrders(Unprocessed(store)) :
         LET r == IF ok THEN get_last_unprocessed_law(ScanResult(store, order))
                        ELSE [status |-> "ok", law |-> NoLaw]
         IN /\ par' = [par EXCEPT ![p] =
                         IF r.status = "TypeError" THEN IdleRun
                         ELSE IF r.law = NoLaw THEN IdleRun
                         ELSE [@ EXCEPT !.pc = "fetch", !.lastLaw = r.law]]
            /\ store' = StoreAfterSelect(store, r.law)
            /\ everProcessed' = everProcessed \cup Processed(store')
    /\ UNCHANGED <<posts, runVars, parStarted>>
    /\ UNCHANGED <<clientVars, retryVars, httpVars, pubVars, syncVars, nestVars, igVars, liveVars>>

\* Step 3 of main(): fetch_law_details_from_legifrance
ParFetch(p, ok, hasArticles, hasCid) ==
    /\ par[p].pc = "fetch"
    /\ ok => Truthy(par[p].lastLaw.date)
    /\ par' = [par EXCEPT ![p] =
                 IF ok
                 THEN [@ EXCEPT !.pc = "process", !.attempt = 1,
                                !.details = [articles |-> hasArticles, cid |-> hasCid]]
                 ELSE IdleRun]
    /\ UNCHANGED <<store, posts, everProcessed, runVars, parStarted>>
    /\ UNCHANGED <<clientVars, retryVars, httpVars, pubVars, syncVars, nestVars, igVars, liveVars>>

\* process_and_publish_law, the "No articles available to process" branch
ParNoArticles(p, ok) ==
    /\ par[p].pc = "process"
    /\ ~par[p].details.articles
    /\ store' = update_item(store, par[p].lastLaw.textId, ok)
    /\ everProcessed' = everProcessed \cup Processed(store')
    /\ par' = [par EXCEPT ![p] = IdleRun]
    /\ UNCHANGED <<posts, runVars, parStarted>>
    /\ UNCHANGED <<clientVars, retryVars, httpVars, pubVars, syncVars, nestVars, igVars, liveVars>>

\* process_and_publish_law, steps 1 and 2: clean the content, run the crew
ParContent(p, outcome) ==
    /\ par[p].pc = "process"
    /\ par[p].details.articles
    /\ par' = [par EXCEPT ![p] =
                 IF outcome = "ok" THEN [@ EXCEPT !.pc = "publish"]
                 ELSE IdleRun]
    /\ UNCHANGED <<store, posts, everProcessed, runVars, parStarted>>
    /\ UNCHANGED <<clientVars, retryVars, httpVars, pubVars, syncVars, nestVars, igVars, liveVars>>

\* process_and_publish_law, step 3: publisher.publish(...)
ParPublish(p, outcome) ==
    /\ par[p].pc = "publish"
    /\ LET next == IF par[p].details.cid THEN "comment" ELSE "mark"
       IN CASE outcome = "id" ->
                 /\ par' = [par EXCEPT ![p] = [@ EXCEPT !.pc = next, !.publishedId = "id"]]
                 /\ posts' = [posts EXCEPT ![par[p].lastLaw.textId] = @ + 1]
            [] outcome = "empty" ->
                 /\ par' = [par EXCEPT ![p] = [@ EXCEPT !.pc = next, !.publishedId = ""]]
                 /\ UNCHANGED posts
            [] outcome = "PublishingError" ->
                 /\ par' = [par EXCEPT ![p] = IdleRun]
                 /\ UNCHANGED posts
            [] OTHER ->
                 /\ par' = [par EXCEPT ![p] =
                              IF par[p].attempt < 2
                              THEN [@ EXCEPT !.pc = "process", !.attempt = @ + 1]
                              ELSE IdleRun]
                 /\ UNCHANGED posts
    /\ UNCHANGED <<store, everProcessed, runVars, parStarted>>
    /\ UNCHANGED <<clientVars, retryVars, httpVars, pubVars, syncVars, nestVars, igVars, liveVars>>

\* publisher.comment_on_post: a failure is logged and swallowed
ParComment(p, ok) ==
    /\ par[p].pc = "comment"
    /\ par' = [par EXCEPT ![p] = [@ EXCEPT !.pc = "mark"]]
    /\ UNCHANGED <<store, posts, everProcessed, runVars, parStarted>>
    /\ UNCHANGED <<clientVars, retryVars, httpVars, pubVars, syncVars, nestVars, igVars, liveVars>>

\* "Mark as processed only if successfully published"
ParMark(p, ok) ==
    /\ par[p].pc = "mark"
    /\ IF PublishedIdTruthy(par[p].publishedId)
       THEN /\ store' = update_item(store, par[p].lastLaw.textId, ok)
            /\ par' = [par EXCEPT ![p] = IdleRun]
       ELSE /\ store' = store
            /\ par' = [par EXCEPT ![p] = IdleRun]
    /\ everProcessed' = everProcessed \cup Processed(store')
    /\ UNCHANGED <<posts, runVars, parStarted>>
    /\ UNCHANGED <<clientVars, retryVars, httpVars, pubVars, syncVars, nestVars, igVars, liveVars>>

NextPar ==
    \/ \E p \in Runs, ok \in BOOLEAN : ParStart(p, ok)
    \/ \E p \in Runs, id \in TextIds, getOk \in BOOLEAN : ParSyncCheck(p, id, getOk)
    \/ \E p \in Runs, id \in TextIds, d \in LastUpdates, getOk \in BOOLEAN :
           ParSyncLodaCheck(p, id, d, getOk)
    \/ \E p \in Runs, putOk \in BOOLEAN : ParSyncPut(p, putOk)
    \/ \E p \in Runs : ParSyncDone(p)
    \/ \E p \in Runs, ok \in BOOLEAN : ParSelect(p, ok)
    \/ \E p \in Runs, ok \in BOOLEAN, a \in BOOLEAN, c \in BOOLEAN : ParFetch(p, ok, a, c)
    \/ \E p \in Runs, ok \in BOOLEAN : ParNoArticles(p, ok)
    \/ \E p \in Runs, o \in {"ok", "DataParsingError", "CrewError"} : ParContent(p, o)
    \/ \E p \in Runs, o \in {"id", "empty", "PublishingError", "RateLimitError"} :
           ParPublish(p, o)
    \/ \E p \in Runs, ok \in BOOLEAN : ParComment(p, ok)
    \/ \E p \in Runs, ok \in BOOLEAN : ParMark(p, ok)

(***************************************************************************)
(* Publisher (app/services/publisher.py) inside Step 3 and Step 4 of       *)
(* main() (SpecPub).  One run of main() from the detail fetch on, for a    *)
(* law that has articles; the HTTP exchange of a publisher method is one   *)
(* safe_request call, given by what that call produced: a JSON body with   *)
(* the expected field ("ok"), a JSON body without it ("missing"), a body   *)
(* that is not JSON ("nonjson"), or the error safe_request raised.         *)
(* wait_for_media_processing and extract_legifrance_url can also be        *)
(* called on their own, with arguments drawn from small sets.              *)
(***************************************************************************)
\* @retry(max_attempts=3) on the publisher's methods
StepMaxAttempts == 3
\* @retry(max_attempts=2) on process_and_publish_law
ProcessMaxAttempts == 2
\* wait_for_media_processing: max_attempts: int = 10, sleep_interval: int = 5
DefaultMaxAttempts == 10
DefaultSleepInterval == 5
\* largest max_attempts of a direct call of wait_for_media_processing
MaxPollArg == 3
\* total_wait_time of an error that has none
NoTotalWait == -1

\* the errors safe_request raises once its own attempts are used up
SafeRequestErrors ==
    {"RateLimitError", "ServerError", "ClientError", "AuthenticationError", "NetworkError"}
BodyOutcomes == {"ok", "missing", "nonjson"} \cup SafeRequestErrors
\* publish_post: the response can also carry the id ""
PostOutcomes == BodyOutcomes \cup {"empty"}
\* the status poll: a status_code, or as above
StatusOutcomes ==
    {"FINISHED", "ERROR", "IN_PROGRESS", "missing", "nonjson"} \cup SafeRequestErrors

\* the records main() can have selected
SelectedLaws == {"L1_21", "L2_12"}

\* law_details.cid: None, "" or an identifier
NoCid == "<None>"
Cids == {NoCid, "", "JORFTEXT1"}
CidTruthy(cid) == cid \notin {NoCid, ""}
\* doc_type arguments; NoDocType: the argument is omitted
NoDocType == "<omitted>"
DocTypes == {"jorf", "loda"}
DefaultDocType == "jorf"

\* what a call produced: a returned value (kind "None") or a raised error with
\* the law_id and total_wait_time entries of its details
PubRunning == [kind |-> "running", law_id |-> "absent", total_wait_time |-> NoTotalWait,
               value |-> ""]
PubReturn(v) == [kind |-> "None", law_id |-> "absent", total_wait_time |-> NoTotalWait,
                 value |-> v]
PubExc(k, law_id, t) == [kind |-> k, law_id |-> law_id, total_wait_time |-> t, value |-> ""]

\* the f-string alone, without the test of cid: None is formatted as "None"
extract_legifrance_url_unchecked(cid, doc_type) ==
    PubReturn("https://www.legifrance.gouv.fr/" \o doc_type \o "/id/"
              \o (IF cid = NoCid THEN "None" ELSE cid))

\* extract_legifrance_url(response, doc_type)
extract_legifrance_url(cid, doc_type) ==
    IF ~CidTruthy(cid)
    THEN PubExc("DataIntegrityError", "absent", NoTotalWait)
    ELSE PubReturn("https://www.legifrance.gouv.fr/" \o doc_type \o "/id/" \o cid)

\* _get_instagram_user_id: the error kind its body raises ("None": it returns)
get_instagram_user_id(o) ==
    CASE o = "ok" -> "None"
      [] o = "missing" -> "AuthenticationError"
      [] o = "nonjson" -> "DataParsingError"
      [] o = "AuthenticationError" -> "AuthenticationError"
      [] OTHER -> "InstagramError"

\* the outer except of create_media_object, publish_post and comment_on_post
WrapPublishing(k) ==
    IF IsInstance(k, "DataParsingError") \/ IsInstance(k, "RateLimitError")
    THEN k
    ELSE "PublishingError"

\* create_media_object: the error kind its body raises ("None": it returns the id)
create_media_object(o) ==
    CASE o = "ok" -> "None"
      [] o \in {"missing", "nonjson"} -> WrapPublishing("DataParsingError")
      [] OTHER -> WrapPublishing(o)

\* publish_post: the error kind its body raises ("None": it returns the id)
publish_post(o) ==
    CASE o \in {"ok", "empty"} -> "None"
      [] o \in {"missing", "nonjson"} -> WrapPublishing("DataParsingError")
      [] OTHER -> WrapPublishing(o)

\* comment_on_post: the error kind its body raises ("None": it returns the id)
comment_on_post(o) ==
    CASE o = "ok" -> "None"
      [] o \in {"missing", "nonjson"} -> WrapPublishing("DataParsingError")
      [] OTHER -> WrapPublishing(o)

\* a status test that returns for every status_code but "ERROR"
StatusActionLenient(status_code) ==
    IF status_code = "ERROR" THEN "PublishingError" ELSE "return"

\* wait_for_media_processing: the tests of status_response.status_code
StatusAction(status_code) ==
    CASE status_code = "FINISHED" -> "return"
      [] status_code = "ERROR" -> "PublishingError"
      [] OTHER -> "continue"

\* one iteration of the loop of wait_for_media_processing: "return",
\* "continue" or the error kind raised
check_status(o) ==
    CASE o \in {"FINISHED", "ERROR", "IN_PROGRESS"} -> StatusAction(o)
      [] o \in {"missing", "nonjson"} -> "DataParsingError"
      [] o = "RateLimitError" -> "RateLimitError"
      [] OTHER -> "InstagramError"

\* a loop test that admits one more iteration
LoopGuardInclusive(attempts, max_attempts) == attempts <= max_attempts

\* `while attempts < max_attempts`
LoopGuard(attempts, max_attempts) == attempts < max_attempts

\* fetch_legi_consult as main() calls it: what main() raises
FetchOutcomes == {"ok", "DataParsingError", "LegifranceError"}
FetchRaises(o, law_id) ==
    IF IsInstance(o, "LegifranceError")
    THEN PubExc(o, "absent", NoTotalWait)
    ELSE PubExc("LegifranceError", law_id, NoTotalWait)

\* Steps 1 and 2 of process_and_publish_law: what they raise
ProcessOutcomes == {"ok", "cleaning", "kickoff", "no_image_url", "bad_output"}
ProcessRaises(o, law_id) ==
    CASE o = "cleaning" -> PubExc("DataParsingError", law_id, NoTotalWait)
      [] o = "kickoff" -> PubExc("CrewError", law_id, NoTotalWait)
      [] OTHER -> PubExc("CrewError", "absent", NoTotalWait)

\* the except of Step 3 of process_and_publish_law
MainWraps(e, law_id) ==
    IF IsInstance(e.kind, "PublishingError") \/ IsInstance(e.kind, "APIError")
    THEN e
    ELSE PubExc("PublishingError", law_id, NoTotalWait)

NoArgs == [entry |-> "none", law |-> "absent", cid |-> NoCid, doc_type |-> NoDocType,
           max_attempts |-> 0, sleep_interval |-> 0]
NoLast == [step |-> "none", outcome |-> "none", raised |-> "None"]
NoCalls == [init |-> 0, create |-> 0, wait |-> 0, post |-> 0, comment |-> 0]

InitPub ==
    /\ ppc = "idle"
    /\ pArgs = NoArgs
    /\ pOuter = 0
    /\ pStep = 1
    /\ pAttempts = 0
    /\ pStatuses = << >>
    /\ pCreationId = 0
    /\ pFinished = {}
    /\ pPostRequested = {}
    /\ pCalls = NoCalls
    /\ pStepFailed = FALSE
    /\ pLast = NoLast
    /\ pPublishedId = "unset"
    /\ pPosted = 0
    /\ pMarks = 0
    /\ pMarked = FALSE
    /\ pMessage = ""
    /\ pResult = PubRunning

\* the wrapper of the current publisher method sleeps and calls the method again
StepRetried(k) ==
    k # "None" /\ Caught([kind |-> k]) /\ AttemptsRemain(pStep, StepMaxAttempts)

\* error e leaves process_and_publish_law's body: its retry wrapper calls the
\* function again or lets the error out of main()
OuterWrapper(e) ==
    IF Caught(e) /\ AttemptsRemain(pOuter, ProcessMaxAttempts)
    THEN /\ ppc' = "process"
         /\ pOuter' = pOuter + 1
         /\ UNCHANGED pResult
    ELSE /\ ppc' = "done"
         /\ pResult' = e
         /\ UNCHANGED pOuter

\* error e leaves a publisher method
Propagate(e) ==
    IF pArgs.entry = "main"
    THEN OuterWrapper(MainWraps(e, pArgs.law))
    ELSE /\ ppc' = "done"
         /\ pResult' = e
         /\ UNCHANGED pOuter

\* main() has selected law and calls fetch_law_details_from_legifrance
PubStartMain(law, cid) ==
    /\ ppc = "idle"
    /\ ppc' = "fetch"
    /\ pArgs' = [entry |-> "main", law |-> law, cid |-> cid, doc_type |-> NoDocType,
                 max_attempts |-> DefaultMaxAttempts,
                 sleep_interval |-> DefaultSleepInterval]
    /\ UNCHANGED <<pOuter, pStep, pAttempts, pStatuses, pCreationId, pFinished,
                   pPostRequested, pCalls, pStepFailed, pLast, pPublishedId, pPosted, pMarked, pMarks,
                   pMessage, pResult>>
    /\ UNCHANGED <<storeVars, clientVars, retryVars, httpVars, parVars, syncVars, nestVars, igVars, liveVars>>

\* a direct call wait_for_media_processing(creation_id, max_attempts, sleep_interval)
PubStartWait(max_attempts, sleep_interval) ==
    /\ ppc = "idle"
    /\ ppc' = "wait"
    /\ pArgs' = [NoArgs EXCEPT !.entry = "wait", !.max_attempts = max_attempts,
                               !.sleep_interval = sleep_interval]
    /\ pCreationId' = 1
    /\ UNCHANGED <<pOuter, pStep, pAttempts, pStatuses, pFinished,
                   pPostRequested, pCalls, pStepFailed, pLast, pPublishedId, pPosted, pMarked, pMarks,
                   pMessage, pResult>>
    /\ UNCHANGED <<storeVars, clientVars, retryVars, httpVars, parVars, syncVars, nestVars, igVars, liveVars>>

\* a direct call extract_legifrance_url(response) or
\* extract_legifrance_url(response, doc_type)
PubExtractUrl(cid, doc_type) ==
    /\ ppc = "idle"
    /\ ppc' = "done"
    /\ pArgs' = [NoArgs EXCEPT !.entry = "extract", !.cid = cid, !.doc_type = doc_type]
    /\ pResult' = extract_legifrance_url(
                      cid, IF doc_type = NoDocType THEN DefaultDocType ELSE doc_type)
    /\ UNCHANGED <<pOuter, pStep, pAttempts, pStatuses, pCreationId, pFinished,
                   pPostRequested, pCalls, pStepFailed, pLast, pPublishedId, pPosted, pMarked, pMarks,
                   pMessage>>
    /\ UNCHANGED <<storeVars, clientVars, retryVars, httpVars, parVars, syncVars, nestVars, igVars, liveVars>>

\* Step 3 of main(): fetch_law_details_from_legifrance
PubFetch(o) ==
    /\ ppc = "fetch"
    /\ IF o = "ok"
       THEN /\ ppc' = "process"
            /\ pOuter' = 1
            /\ UNCHANGED pResult
       ELSE /\ ppc' = "done"
            /\ pResult' = FetchRaises(o, pArgs.law)
            /\ UNCHANGED pOuter
    /\ UNCHANGED <<pArgs, pStep, pAttempts, pStatuses, pCreationId, pFinished,
                   pPostRequested, pCalls, pStepFailed, pLast, pPublishedId, pPosted, pMarked, pMarks,
                   pMessage>>
    /\ UNCHANGED <<storeVars, clientVars, retryVars, httpVars, parVars, syncVars, nestVars, igVars, liveVars>>

\* process_and_publish_law, Steps 1 and 2: clean the content, run the crew
PubProcess(o) ==
    /\ ppc = "process"
    /\ IF o = "ok"
       THEN /\ ppc' = "init"
            /\ UNCHANGED <<pOuter, pResult>>
       ELSE OuterWrapper(ProcessRaises(o, pArgs.law))
    /\ pPublishedId' = "unset"
    /\ UNCHANGED pPosted
    /\ pStep' = 1
    /\ UNCHANGED <<pArgs, pAttempts, pStatuses, pCreationId, pFinished,
                   pPostRequested, pCalls, pStepFailed, pLast, pMarked, pMarks, pMessage>>
    /\ UNCHANGED <<storeVars, clientVars, retryVars, httpVars, parVars, syncVars, nestVars, igVars, liveVars>>

\* Publisher(access_token=...): __init__ calls _get_instagram_user_id
PubInit(o) ==
    /\ ppc = "init"
    /\ pCalls' = [pCalls EXCEPT !.init = @ + 1]
    /\ LET k == get_instagram_user_id(o)
       IN /\ pLast' = [step |-> "init", outcome |-> o, raised |-> k]
          /\ CASE k = "None" ->
                    /\ ppc' = "create"
                    /\ pStep' = 1
                    /\ UNCHANGED <<pOuter, pResult, pStepFailed>>
               [] StepRetried(k) ->
                    /\ pStep' = pStep + 1
                    /\ UNCHANGED <<ppc, pOuter, pResult, pStepFailed>>
               [] OTHER ->
                    /\ Propagate(PubExc(k, "absent", NoTotalWait))
                    /\ pStepFailed' = TRUE
                    /\ pStep' = 1
    /\ UNCHANGED <<pArgs, pAttempts, pStatuses, pCreationId, pFinished,
                   pPostRequested, pPublishedId, pPosted, pMarked, pMarks, pMessage>>
    /\ UNCHANGED <<storeVars, clientVars, retryVars, httpVars, parVars, syncVars, nestVars, igVars, liveVars>>

\* publish(): creation_id = self.create_media_object(image_url, caption)
PubCreate(o) ==
    /\ ppc = "create"
    /\ pCalls' = [pCalls EXCEPT !.create = @ + 1]
    /\ LET k == create_media_object(o)
       IN /\ pLast' = [step |-> "create", outcome |-> o, raised |-> k]
          /\ CASE k = "None" ->
                    /\ ppc' = "wait"
                    /\ pCreationId' = pCreationId + 1
                    /\ pStep' = 1
                    /\ pAttempts' = 0
                    /\ pStatuses' = << >>
                    /\ UNCHANGED <<pOuter, pResult, pStepFailed>>
               [] StepRetried(k) ->
                    /\ pStep' = pStep + 1
                    /\ UNCHANGED <<ppc, pCreationId, pAttempts, pStatuses, pOuter, pResult,
                                   pStepFailed>>
               [] OTHER ->
                    /\ Propagate(PubExc(k, "absent", NoTotalWait))
                    /\ pStepFailed' = TRUE
                    /\ pStep' = 1
                    /\ UNCHANGED <<pCreationId, pAttempts, pStatuses>>
    /\ UNCHANGED <<pArgs, pFinished, pPostRequested, pPublishedId, pPosted, pMarked, pMarks, pMessage>>
    /\ UNCHANGED <<storeVars, clientVars, retryVars, httpVars, parVars, syncVars, nestVars, igVars, liveVars>>

\* wait_for_media_processing: one iteration of the loop (sleep, status
\* request, tests of the status)
PubPoll(o) ==
    /\ ppc = "wait"
    /\ LoopGuard(pAttempts, pArgs.max_attempts)
    /\ pCalls' = [pCalls EXCEPT !.wait = @ + 1]
    /\ pStatuses' = Append(pStatuses, o)
    /\ LET k == check_status(o)
       IN /\ pLast' = [step |-> "wait", outcome |-> o,
                       raised |-> IF k \in {"return", "continue"} THEN "None" ELSE k]
          /\ CASE k = "return" ->
                    /\ pFinished' = IF o = "FINISHED" THEN pFinished \cup {pCreationId}
                                    ELSE pFinished
                    /\ IF pArgs.entry = "main"
                       THEN ppc' = "post" /\ UNCHANGED pResult
                       ELSE ppc' = "done" /\ pResult' = PubReturn(o)
                    /\ UNCHANGED <<pAttempts, pOuter, pStepFailed>>
               [] k = "continue" ->
                    /\ pAttempts' = pAttempts + 1
                    /\ UNCHANGED <<ppc, pFinished, pOuter, pResult, pStepFailed>>
               [] OTHER ->
                    /\ Propagate(PubExc(k, "absent", NoTotalWait))
                    /\ pStepFailed' = TRUE
                    /\ UNCHANGED <<pAttempts, pFinished>>
    /\ UNCHANGED <<pArgs, pStep, pCreationId, pPostRequested, pPublishedId, pPosted, pMarked, pMarks,
                   pMessage>>
    /\ UNCHANGED <<storeVars, clientVars, retryVars, httpVars, parVars, syncVars, nestVars, igVars, liveVars>>

\* wait_for_media_processing: the loop is left with the attempts exhausted
PubWaitTimeout ==
    /\ ppc = "wait"
    /\ ~LoopGuard(pAttempts, pArgs.max_attempts)
    /\ Propagate(PubExc("PublishingError", "absent",
                        pArgs.max_attempts * pArgs.sleep_interval))
    /\ pStepFailed' = TRUE
    /\ UNCHANGED <<pArgs, pStep, pAttempts, pStatuses, pCreationId, pFinished,
                   pPostRequested, pCalls, pLast, pPublishedId, pPosted, pMarked, pMarks, pMessage>>
    /\ UNCHANGED <<storeVars, clientVars, retryVars, httpVars, parVars, syncVars, nestVars, igVars, liveVars>>

\* publish(): return self.publish_post(creation_id)
PubPost(o) ==
    /\ ppc = "post"
    /\ pCalls' = [pCalls EXCEPT !.post = @ + 1]
    /\ pPostRequested' = pPostRequested \cup {pCreationId}
    /\ LET k == publish_post(o)
       IN /\ pLast' = [step |-> "post", outcome |-> o, raised |-> k]
          /\ CASE k = "None" ->
                    /\ pPublishedId' = IF o = "empty" THEN "" ELSE "id"
                    /\ pPosted' = pPosted + 1
                    /\ ppc' = IF CidTruthy(pArgs.cid) THEN "comment" ELSE "mark"
                    /\ pStep' = 1
                    /\ UNCHANGED <<pOuter, pResult, pStepFailed>>
               [] StepRetried(k) ->
                    /\ pStep' = pStep + 1
                    /\ UNCHANGED <<ppc, pPublishedId, pPosted, pOuter, pResult, pStepFailed>>
               [] OTHER ->
                    /\ Propagate(PubExc(k, "absent", NoTotalWait))
                    /\ pStepFailed' = TRUE
                    /\ pStep' = 1
                    /\ UNCHANGED <<pPublishedId, pPosted>>
    /\ UNCHANGED <<pArgs, pAttempts, pStatuses, pCreationId, pFinished, pMarked, pMarks, pMessage>>
    /\ UNCHANGED <<storeVars, clientVars, retryVars, httpVars, parVars, syncVars, nestVars, igVars, liveVars>>

\* `if law_details.cid:` publisher.comment_on_post(published_id, legifrance_url);
\* an error is logged and dropped
PubComment(o) ==
    /\ ppc = "comment"
    /\ pCalls' = [pCalls EXCEPT !.comment = @ + 1]
    /\ pMessage' = extract_legifrance_url(pArgs.cid, DefaultDocType).value
    /\ LET k == comment_on_post(o)
       IN /\ pLast' = [step |-> "comment", outcome |-> o, raised |-> k]
          /\ CASE k = "None" ->
                    /\ ppc' = "mark"
                    /\ pStep' = 1
                    /\ UNCHANGED <<pStepFailed, pOuter, pResult>>
               [] StepRetried(k) ->
                    /\ pStep' = pStep + 1
                    /\ UNCHANGED <<ppc, pStepFailed, pOuter, pResult>>
               [] OTHER ->
                    /\ IF AfterComment(FALSE) = "mark"
                       THEN ppc' = "mark" /\ UNCHANGED <<pOuter, pResult>>
                       ELSE Propagate(PubExc(k, "absent", NoTotalWait))
                    /\ pStepFailed' = TRUE
                    /\ pStep' = 1
    /\ UNCHANGED <<pArgs, pAttempts, pStatuses, pCreationId, pFinished,
                   pPostRequested, pPublishedId, pPosted, pMarked, pMarks>>
    /\ UNCHANGED <<storeVars, clientVars, retryVars, httpVars, parVars, syncVars, nestVars, igVars, liveVars>>

\* `if published_id:` update_processed_law_status, else PublishingError
PubMark ==
    /\ ppc = "mark"
    /\ IF PublishedIdTruthy(pPublishedId)
       THEN /\ pMarked' = TRUE
            /\ pMarks' = pMarks + 1
            /\ ppc' = "done"
            /\ pResult' = PubReturn("")
            /\ UNCHANGED pOuter
       ELSE /\ OuterWrapper(PubExc("PublishingError", pArgs.law, NoTotalWait))
            /\ UNCHANGED <<pMarked, pMarks>>
    /\ UNCHANGED <<pArgs, pStep, pAttempts, pStatuses, pCreationId, pFinished,
                   pPostRequested, pCalls, pStepFailed, pLast, pPublishedId, pPosted, pMessage>>
    /\ UNCHANGED <<storeVars, clientVars, retryVars, httpVars, parVars, syncVars, nestVars, igVars, liveVars>>

NextPub ==
    \/ \E law \in SelectedLaws, cid \in Cids \ {NoCid} : PubStartMain(law, cid)
    \/ \E m \in 0..MaxPollArg, s \in {1, DefaultSleepInterval} : PubStartWait(m, s)
    \/ \E cid \in Cids, d \in DocTypes \cup {NoDocType} : PubExtractUrl(cid, d)
    \/ \E o \in FetchOutcomes : PubFetch(o)
    \/ \E o \in ProcessOutcomes : PubProcess(o)
    \/ \E o \in BodyOutcomes : PubInit(o)
    \/ \E o \in BodyOutcomes : PubCreate(o)
    \/ \E o \in StatusOutcomes : PubPoll(o)
    \/ PubWaitTimeout
    \/ \E o \in PostOutcomes : PubPost(o)
    \/ \E o \in BodyOutcomes : PubComment(o)
    \/ PubMark

(***************************************************************************)
(* sync_new_entries_to_dynamodb (SpecSync): passes over lists of laws,     *)
(* one call of sync_new_law_to_dynamodb per entry.                         *)
(***************************************************************************)
\* at most this many entries in text_lodas, and this many passes
MaxListLen == 3
MaxSyncPasses == 2

\* sync_new_law_to_dynamodb: the value it returns; put_item's result is dropped
sync_new_law_returns(st, law_id, getOk, putOk) ==
    get_item(st, law_id, getOk) = NoItem

InitSync ==
    /\ syncLeft = 0
    /\ syncCount = 0
    /\ syncAdded = 0
    /\ syncPasses = 0

\* sync_new_entries_to_dynamodb(text_lodas) is called with n entries
SyncPassStart(n) ==
    /\ syncLeft = 0
    /\ syncPasses < MaxSyncPasses
    /\ syncPasses' = syncPasses + 1
    /\ syncLeft' = n
    /\ syncCount' = 0
    /\ syncAdded' = 0
    /\ UNCHANGED <<storeVars, clientVars, retryVars, httpVars, parVars, pubVars, nestVars, igVars, liveVars>>

\* one iteration of the loop: `if self.sync_new_law_to_dynamodb(text_loda)`
SyncEntry(law_id, getOk, putOk) ==
    /\ syncLeft > 0
    /\ syncLeft' = syncLeft - 1
    /\ store' = sync_new_law_to_dynamodb(store, law_id, getOk, putOk)
    /\ syncCount' = IF sync_new_law_returns(store, law_id, getOk, putOk)
                    THEN syncCount + 1 ELSE syncCount
    /\ syncAdded' = IF law_id \notin DOMAIN store /\ law_id \in DOMAIN store'
                    THEN syncAdded + 1 ELSE syncAdded
    /\ storeOk' = IF get_item(store, law_id, getOk) = NoItem THEN putOk ELSE storeOk
    /\ UNCHANGED <<pc, runs, commentOk, lastLaw, scanItems, scanOk, selStatus, details,
                   attempt, publishedId, posts, runMarked, runResult, lambdaResponse, everProcessed>>
    /\ UNCHANGED syncPasses
    /\ UNCHANGED <<clientVars, retryVars, httpVars, parVars, pubVars, nestVars, igVars, liveVars>>

\* update_processed_law_status(dynamo_client, law) called for a law with this
\* textId, between two passes
SyncMark(law_id, ok) ==
    /\ syncLeft = 0
    /\ store' = update_item(store, law_id, ok)
    /\ everProcessed' = everProcessed \cup Processed(store')
    /\ storeOk' = ok
    /\ UNCHANGED <<pc, runs, commentOk, lastLaw, scanItems, scanOk, selStatus, details,
                   attempt, publishedId, posts, runMarked, runResult, lambdaResponse>>
    /\ UNCHANGED syncVars
    /\ UNCHANGED <<clientVars, retryVars, httpVars, parVars, pubVars, nestVars, igVars, liveVars>>

NextSync ==
    \/ \E n \in 0..MaxListLen : SyncPassStart(n)
    \/ \E id \in TextIds, getOk \in BOOLEAN, putOk \in BOOLEAN : SyncEntry(id, getOk, putOk)
    \/ \E id \in TextIds, ok \in BOOLEAN : SyncMark(id, ok)

(***************************************************************************)
(* Nested retry wrappers (SpecNest).  A publisher step or a registry call  *)
(* is a retry wrapper around a body that calls safe_request, itself a      *)
(* retry wrapper around requests.request.  Level 1 is safe_request's       *)
(* wrapper; level 2 is the wrapper of the publisher step or of             *)
(* LegifranceApiClient.request; level 3 is the wrapper of fetch_loda_list  *)
(* or fetch_legi_consult.  The registry token is fresh, so _ensure_token   *)
(* sends nothing.                                                          *)
(***************************************************************************)
\* @retry(max_attempts=3) of request, fetch_legi_consult and fetch_loda_list
RegistryMaxAttempts == 3

PublisherSteps == {"create_media_object", "publish_post", "comment_on_post"}
RegistryCalls == {"fetch_loda_list", "fetch_legi_consult"}

\* number of retry wrappers around requests.request
Depth(call) == IF call \in PublisherSteps THEN 2 ELSE 3

\* max_attempts of the wrapper at a level
LevelMaxAttempts(call, level) ==
    IF level = 1 THEN SafeRequestPolicy.max_attempts
    ELSE IF call \in PublisherSteps THEN StepMaxAttempts
    ELSE RegistryMaxAttempts

\* an except clause of request that re-raises what safe_request raised
RequestReraises(k) == k

\* the except clause of LegifranceApiClient.request
RequestWraps(k) ==
    IF /\ IsInstance(k, "APIError")
       /\ ~(IsInstance(k, "AuthenticationError") \/ IsInstance(k, "DataParsingError"))
    THEN "LegifranceError"
    ELSE k

\* the outer except of fetch_legi_consult and fetch_loda_list
FetchWraps(k) ==
    IF IsInstance(k, "LegifranceError") \/ IsInstance(k, "DataParsingError")
    THEN k
    ELSE "LegifranceError"

\* the error the body under the wrapper at `level` raises when error e reaches it
BodyRaises(call, level, e) ==
    LET k == IF level = 1 THEN e.kind
             ELSE IF call \in PublisherSteps THEN WrapPublishing(e.kind)
             ELSE IF level = 2 THEN RequestWraps(e.kind)
             ELSE FetchWraps(e.kind)
    IN IF k = e.kind THEN e ELSE PlainError(k)

\* error e is raised under the wrapper at `level`, attempts att: the wrapper
\* sleeps and calls its body again, or the error goes on to the next wrapper
RECURSIVE Unwind(_, _, _, _)
Unwind(call, level, att, e) ==
    LET b == BodyRaises(call, level, e)
        pol == [SafeRequestPolicy EXCEPT !.max_attempts = LevelMaxAttempts(call, level)]
        h == HandleException(pol, att[level], pol.retry_delay, b)
    IN IF ~h.raise
       THEN [att |-> [l \in 1..3 |-> IF l < level THEN 1
                                     ELSE IF l = level THEN att[l] + 1 ELSE att[l]],
             out |-> Running]
       ELSE IF level = Depth(call)
            THEN [att |-> att, out |-> [kind |-> "raised", exc |-> b]]
            ELSE Unwind(call, level + 1, att, b)

\* the HTTP exchanges explored
NestExchanges ==
    {x \in Exchanges : x.header = "" /\ x.status \in {NoResponse, 200, 401, 429, 503}}

\* exchange x ends in an error that safe_request retries
RetryableExchange(x) == ~MakeRequestReturns(x) /\ Caught(MakeRequestError(x))

InitNest ==
    /\ nCall = "none"
    /\ nAtt = <<1, 1, 1>>
    /\ nHttp = 0
    /\ nOutcome = Running
    /\ nAllRetryable = TRUE

\* the call is made
NestStart(call) ==
    /\ nCall = "none"
    /\ nCall' = call
    /\ UNCHANGED <<nAtt, nHttp, nOutcome, nAllRetryable>>
    /\ UNCHANGED <<storeVars, clientVars, retryVars, httpVars, parVars, pubVars, syncVars, igVars, liveVars>>

\* requests.request is called once: exchange x; parses tells whether the body
\* of a successful response is the JSON the caller expects
NestExchange(x, parses) ==
    /\ nCall # "none"
    /\ nOutcome = Running
    /\ nHttp' = nHttp + 1
    /\ nAllRetryable' = (nAllRetryable /\ RetryableExchange(x))
    /\ IF MakeRequestReturns(x) /\ parses
       THEN /\ nOutcome' = [kind |-> "returned", by |-> nHttp + 1]
            /\ UNCHANGED nAtt
       ELSE LET u == IF MakeRequestReturns(x)
                     THEN Unwind(nCall, 2, nAtt, PlainError("DataParsingError"))
                     ELSE Unwind(nCall, 1, nAtt, MakeRequestError(x))
            IN /\ nAtt' = u.att
               /\ nOutcome' = u.out
    /\ UNCHANGED nCall
    /\ UNCHANGED <<storeVars, clientVars, retryVars, httpVars, parVars, pubVars, syncVars, igVars, liveVars>>

NextNest ==
    \/ \E call \in PublisherSteps \cup RegistryCalls : NestStart(call)
    \/ \E x \in NestExchanges, parses \in BOOLEAN : NestExchange(x, parses)


(***************************************************************************)
(* InstagramTokenManager.ensure_valid_token (SpecIg).  A token is a        *)
(* natural number: NoIgToken is None, n > 0 is the n-th token handed out.  *)
(* A step is one call ensure_valid_token makes.                            *)
(***************************************************************************)
\* at most this many calls of ensure_valid_token on one manager
MaxIgCalls == 3
NoIgToken == 0
\* `if expires_in < 7 * 24 * 3600`: seven days in seconds
RefreshWindow == 604800
\* get_token_info(): None, a dict without "expires_in", or its expires_in
NoTokenInfo == -1
NoExpiresInKey == -2
TokenInfos == {NoTokenInfo, NoExpiresInKey, RefreshWindow - 1, RefreshWindow}
\* a refresh endpoint answers 200 with an access_token, 200 without one, with
\* another status, or the request raises
EndpointAnswers == {"token", "no_token", "status", "raises"}
\* update_token_in_secrets: it returns True, catches ClientError and returns
\* False, or another error leaves it
SecretOutcomes == {"ok", "ClientError", "raises"}

NoIgResult == [kind |-> "none", token |-> NoIgToken]
IgReturn(t) == [kind |-> "returned", token |-> t]
IgRaise == [kind |-> "raised", token |-> NoIgToken]

\* refresh_long_lived_token with _fallback_facebook_refresh: TRUE when a new
\* token is returned, FALSE when None is
refresh_long_lived_token(primary, fallback) ==
    IF primary \in {"token", "no_token"}
    THEN primary = "token"
    ELSE fallback = "token"

\* the invalid-token branch of ensure_valid_token: current_token after
\* update_token_in_secrets returned `updated`
AfterInvalidRefresh(updated, new_token, current) ==
    IF updated THEN new_token ELSE current

InitIg ==
    /\ igpc = "idle"
    /\ igToken \in {NoIgToken, 1}
    /\ igIssued = 1
    /\ igNew = NoIgToken
    /\ igSecret = igToken
    /\ igResult = NoIgResult
    /\ igCalls = 0

\* ensure_valid_token is called: `if self.current_token and self.is_token_valid()`
IgStart(valid) ==
    /\ igpc = "idle"
    /\ igCalls < MaxIgCalls
    /\ igCalls' = igCalls + 1
    /\ igResult' = NoIgResult
    /\ igNew' = NoIgToken
    /\ igpc' = IF igToken = NoIgToken THEN "create"
               ELSE IF valid THEN "info" ELSE "refresh_invalid"
    /\ UNCHANGED <<igToken, igIssued, igSecret>>
    /\ UNCHANGED <<storeVars, clientVars, retryVars, httpVars, parVars, pubVars, syncVars,
                   nestVars, liveVars>>

\* get_token_info() and the test of expires_in
IgInfo(info) ==
    /\ igpc = "info"
    /\ IF info \notin {NoTokenInfo, NoExpiresInKey} /\ info < RefreshWindow
       THEN igpc' = "refresh_valid" /\ UNCHANGED igResult
       ELSE igpc' = "idle" /\ igResult' = IgReturn(igToken)
    /\ UNCHANGED <<igToken, igIssued, igNew, igSecret, igCalls>>
    /\ UNCHANGED <<storeVars, clientVars, retryVars, httpVars, parVars, pubVars, syncVars,
                   nestVars, liveVars>>

\* new_token = self.refresh_long_lived_token(), in either branch
IgRefresh(primary, fallback) ==
    /\ igpc \in {"refresh_valid", "refresh_invalid"}
    /\ IF refresh_long_lived_token(primary, fallback)
       THEN /\ igNew' = igIssued + 1
            /\ igIssued' = igIssued + 1
            /\ igpc' = IF igpc = "refresh_valid" THEN "update_valid" ELSE "update_invalid"
            /\ UNCHANGED igResult
       ELSE /\ UNCHANGED <<igNew, igIssued>>
            /\ IF igpc = "refresh_valid"
               THEN igpc' = "idle" /\ igResult' = IgReturn(igToken)
               ELSE igpc' = "create" /\ UNCHANGED igResult
    /\ UNCHANGED <<igToken, igSecret, igCalls>>
    /\ UNCHANGED <<storeVars, clientVars, retryVars, httpVars, parVars, pubVars, syncVars,
                   nestVars, liveVars>>

\* generator.create_permanent_instagram_token(): a token or None
IgCreate(created) ==
    /\ igpc = "create"
    /\ IF created
       THEN /\ igNew' = igIssued + 1
            /\ igIssued' = igIssued + 1
            /\ igpc' = "update_create"
            /\ UNCHANGED igResult
       ELSE /\ igpc' = "idle"
            /\ igResult' = IgRaise
            /\ UNCHANGED <<igNew, igIssued>>
    /\ UNCHANGED <<igToken, igSecret, igCalls>>
    /\ UNCHANGED <<storeVars, clientVars, retryVars, httpVars, parVars, pubVars, syncVars,
                   nestVars, liveVars>>

\* `if self.update_token_in_secrets(...)` in the three branches
IgUpdate(o) ==
    /\ igpc \in {"update_valid", "update_invalid", "update_create"}
    /\ igpc' = "idle"
    /\ igSecret' = IF o = "ok" THEN igNew ELSE igSecret
    /\ IF o = "raises"
       THEN igResult' = IgRaise /\ UNCHANGED igToken
       ELSE CASE igpc = "update_valid" ->
                     IF o = "ok"
                     THEN igToken' = igNew /\ igResult' = IgReturn(igNew)
                     ELSE igResult' = IgReturn(igToken) /\ UNCHANGED igToken
              [] igpc = "update_invalid" ->
                     /\ igToken' = AfterInvalidRefresh(o = "ok", igNew, igToken)
                     /\ igResult' = IgReturn(igNew)
              [] OTHER ->
                     /\ igToken' = igNew
                     /\ igResult' = IgReturn(igNew)
    /\ UNCHANGED <<igNew, igIssued, igCalls>>
    /\ UNCHANGED <<storeVars, clientVars, retryVars, httpVars, parVars, pubVars, syncVars,
                   nestVars, liveVars>>

NextIg ==
    \/ \E valid \in BOOLEAN : IgStart(valid)
    \/ \E info \in TokenInfos : IgInfo(info)
    \/ \E primary \in EndpointAnswers, fallback \in EndpointAnswers :
           IgRefresh(primary, fallback)
    \/ \E created \in BOOLEAN : IgCreate(created)
    \/ \E o \in SecretOutcomes : IgUpdate(o)


(***************************************************************************)
(* Repeated runs of main() on a table no new law is added to (SpecLive).   *)
(* The handler is invoked on a schedule, again and again, and every run    *)
(* goes on to its end.  `failing` holds the records whose fetch,           *)
(* generation or publication fails in every run; every other step          *)
(* succeeds, except that a law without a date cannot be fetched.           *)
(***************************************************************************)
\* the dates a sync pass writes for a text id: the date part of the id
\* (sync_new_law_to_dynamodb) or the registry's lastUpdate (law_tracker)
DatesOf(id) == {IdDatePart(id)} \cup LastUpdates

\* the tables the sync passes can have built
LiveStores ==
    UNION {{st \in [D -> [date : {<<1, 1>>, <<1, 2>>, <<2, 1>>, NoneDate},
                          isProcessed : BOOLEAN]] :
               \A id \in D : st[id].date \in DatesOf(id)} : D \in SUBSET TextIds}

InitLive ==
    /\ store \in LiveStores
    /\ failing \in SUBSET (DOMAIN store)
    /\ pc = "idle"
    /\ runs = 0
    /\ commentOk = TRUE
    /\ lastLaw = NoLaw
    /\ scanItems = << >>
    /\ scanOk = TRUE
    /\ selStatus = "notrun"
    /\ details = NoDetails
    /\ attempt = 0
    /\ publishedId = "unset"
    /\ posts = [id \in TextIds |-> 0]
    /\ runMarked = {}
    /\ storeOk = TRUE
    /\ runResult = "none"
    /\ lambdaResponse = NoLambdaResponse
    /\ everProcessed = Processed(store)

\* the next scheduled invocation of main(); the count of runs stops at MaxRuns
StartRunAgain ==
    /\ pc = "idle"
    /\ runs' = IF runs < MaxRuns THEN runs + 1 ELSE runs
    /\ commentOk' = TRUE
    /\ pc' = "sync"
    /\ lastLaw' = NoLaw
    /\ scanItems' = << >>
    /\ scanOk' = TRUE
    /\ selStatus' = "notrun"
    /\ details' = NoDetails
    /\ attempt' = 0
    /\ publishedId' = "unset"
    /\ runMarked' = {}
    /\ runResult' = "none"
    /\ lambdaResponse' = NoLambdaResponse
    /\ UNCHANGED <<store, everProcessed, posts, storeOk>>
    /\ UNCHANGED <<clientVars, retryVars, httpVars, parVars, pubVars, syncVars, nestVars,
                   igVars, liveVars>>

\* the selected law is one whose processing fails in every run
Fails == lastLaw # NoLaw /\ lastLaw.textId \in failing

\* Step 3: the fetch succeeds unless the law fails here or has no date
LiveFetch(ok, hasArticles, hasCid) ==
    /\ pc = "fetch"
    /\ IF Fails THEN ok => hasArticles ELSE ok = Truthy(lastLaw.date)
    /\ FetchDetails(ok, hasArticles, hasCid)

\* Steps 1 and 2 of process_and_publish_law
LiveProcess(o) ==
    /\ pc = "process"
    /\ ~Fails => o = "ok"
    /\ ProcessContent(o)

\* Step 3 of process_and_publish_law: a failing law is never published
LivePublish(o) ==
    /\ pc = "publish"
    /\ IF Fails THEN o # "id" ELSE o = "id"
    /\ Publish(o)

NextLive ==
    \/ StartRunAgain
    \/ SyncFetch(TRUE)
    \/ SyncDone
    \/ Select(TRUE)
    \/ \E ok \in BOOLEAN, a \in BOOLEAN, c \in BOOLEAN : LiveFetch(ok, a, c)
    \/ ProcessNoArticles(TRUE)
    \/ \E o \in {"ok", "DataParsingError", "CrewError"} : LiveProcess(o)
    \/ \E o \in {"id", "empty", "PublishingError", "RateLimitError"} : LivePublish(o)
    \/ Comment(TRUE)
    \/ MarkProcessed(TRUE)


(***************************************************************************)
(* Specifications                                                          *)
(***************************************************************************)
\* the part of the state a specification does not use stays at these values
ClientUnused ==
    /\ now = StartTime
    /\ ctorToken = TRUE
    /\ lastTokenCall = NoTokenCall
    /\ token = 0
    /\ tokenExpiry = NoExpiry
    /\ acquiredAt = 0
    /\ Constructed
RetryUnused == policy = SafeRequestPolicy /\ WrapperEntered
HttpUnused == responses = << >>
PubUnused == InitPub
SyncUnused == InitSync
NestUnused == InitNest
LiveUnused == failing = {}
IgUnused ==
    /\ igpc = "idle" /\ igToken = NoIgToken /\ igIssued = 1 /\ igNew = NoIgToken
    /\ igSecret = NoIgToken /\ igResult = NoIgResult /\ igCalls = 0

Init == InitStore /\ ClientUnused /\ RetryUnused /\ HttpUnused /\ InitPar /\ PubUnused /\ SyncUnused /\ NestUnused /\ IgUnused /\ LiveUnused
Next == NextStore
Spec == Init /\ [][Next]_vars

ClientInit == InitStore /\ InitClient /\ RetryUnused /\ HttpUnused /\ InitPar /\ PubUnused /\ SyncUnused /\ NestUnused /\ IgUnused /\ LiveUnused
ClientNext == NextClient
SpecClient == ClientInit /\ [][ClientNext]_vars

RetryInit == InitStore /\ ClientUnused /\ InitRetry /\ HttpUnused /\ InitPar /\ PubUnused /\ SyncUnused /\ NestUnused /\ IgUnused /\ LiveUnused
RetryNext == NextRetry
SpecRetry == RetryInit /\ [][RetryNext]_vars

HttpInit == InitStore /\ ClientUnused /\ InitHttp /\ InitPar /\ PubUnused /\ SyncUnused /\ NestUnused /\ IgUnused /\ LiveUnused
HttpNext == NextHttp
SpecHttp == HttpInit /\ [][HttpNext]_vars

ParInit == InitStore /\ ClientUnused /\ RetryUnused /\ HttpUnused /\ InitPar /\ PubUnused /\ SyncUnused /\ NestUnused /\ IgUnused /\ LiveUnused
ParNext == NextPar
SpecPar == ParInit /\ [][ParNext]_vars

PubSpecInit == InitStore /\ ClientUnused /\ RetryUnused /\ HttpUnused /\ InitPar /\ InitPub /\ SyncUnused /\ NestUnused /\ IgUnused /\ LiveUnused
PubNext == NextPub
SpecPub == PubSpecInit /\ [][PubNext]_vars

SyncSpecInit ==
    InitStore /\ ClientUnused /\ RetryUnused /\ HttpUnused /\ InitPar /\ PubUnused /\ InitSync /\ NestUnused /\ IgUnused /\ LiveUnused
SyncNext == NextSync
SpecSync == SyncSpecInit /\ [][SyncNext]_vars

NestSpecInit ==
    InitStore /\ ClientUnused /\ RetryUnused /\ HttpUnused /\ InitPar /\ PubUnused /\ SyncUnused
    /\ InitNest /\ IgUnused /\ LiveUnused
NestNext == NextNest
SpecNest == NestSpecInit /\ [][NestNext]_vars

IgSpecInit ==
    InitStore /\ ClientUnused /\ RetryUnused /\ HttpUnused /\ InitPar /\ PubUnused /\ SyncUnused
    /\ NestUnused /\ InitIg /\ LiveUnused
IgNext == NextIg
SpecIg == IgSpecInit /\ [][IgNext]_vars

LiveInit ==
    InitLive /\ ClientUnused /\ RetryUnused /\ HttpUnused /\ InitPar /\ PubUnused /\ SyncUnused
    /\ NestUnused /\ IgUnused
\* every scheduled invocation happens and every run goes on to its end
SpecLive == LiveInit /\ [][NextLive]_vars /\ WF_vars(NextLive)


(***************************************************************************)
(* Properties of the store and the main workflow (checked under Spec)      *)
(***************************************************************************)

\* C1: once a record's isProcessed is true in the store, no later state of
\* the store has that record with isProcessed false (or without the record),
\* whatever sync passes and markProcessed calls follow, store failures included.
C1_ProcessedNeverReset ==
    [][\A id \in DOMAIN store :
          store[id].isProcessed => (id \in DOMAIN store' /\ store'[id].isProcessed)]_vars

\* C2: a step of a sync pass leaves every record that is already in the
\* store unchanged (same date, same isProcessed); the store holds one record
\* per textId, so no second record for a present textId can appear.
C2_SyncLeavesExisting ==
    [][pc = "syncing" =>
          \A id \in DOMAIN store : id \in DOMAIN store' /\ store'[id] = store[id]]_vars

AfterSelect ==
    /\ selStatus # "notrun"
    /\ scanOk
    /\ pc = "fetch" \/ (pc = "idle" /\ lastLaw = NoLaw)

\* a <= b for two stored dates
DateLeq(a, b) == a = b \/ (a # NoneDate /\ b # NoneDate /\ ~StrLess(b, a))

\* C4: get_last_unprocessed_law returns none exactly when no record has
\* isProcessed = false; otherwise it returns a record that has isProcessed =
\* false and whose date is <= the date of every other unprocessed record,
\* for every store content and every scan order.
C4_SelectsOldestUnprocessed ==
    AfterSelect =>
        /\ selStatus = "ok"
        /\ (lastLaw = NoLaw) <=> ({id \in DOMAIN store : ~store[id].isProcessed} = {})
        /\ lastLaw # NoLaw =>
              /\ lastLaw.textId \in DOMAIN store
              /\ ~store[lastLaw.textId].isProcessed
              /\ lastLaw.date = store[lastLaw.textId].date
              /\ \A id \in DOMAIN store :
                    ~store[id].isProcessed => DateLeq(lastLaw.date, store[id].date)

\* C5: starting from an empty store, a sync pass that adds a candidate leaves
\* exactly that record, unprocessed; select-oldest-unprocessed on a store whose
\* only unprocessed record is L returns L; a markProcessed that succeeds
\* leaves the selected record processed; and select-oldest-unprocessed on a
\* store without unprocessed records returns none, the run ending as a success.
C5_EndToEnd ==
    [][/\ (pc = "syncing" /\ store = << >> /\ store' # store) =>
              \E id \in TextIds : DOMAIN store' = {id} /\ ~store'[id].isProcessed
       /\ (pc = "select" /\ scanOk') =>
              LET todo == {id \in DOMAIN store : ~store[id].isProcessed}
              IN /\ todo = {} => (lastLaw' = NoLaw /\ pc' = "idle" /\ runResult' = "success")
                 /\ \A id \in todo :
                       todo = {id} => (lastLaw' # NoLaw /\ lastLaw'.textId = id /\ pc' = "fetch")
       /\ (runMarked' # runMarked /\ storeOk') =>
              /\ lastLaw.textId \in DOMAIN store'
              /\ store'[lastLaw.textId].isProcessed]_vars

\* C5 witness: L1 was synced into the empty store, selected, published once
\* and marked; the next run's select returned none
C5_Witness ==
    /\ runs = 2
    /\ pc = "idle"
    /\ DOMAIN store = {"L1_21"}
    /\ store["L1_21"].isProcessed
    /\ posts["L1_21"] = 1
    /\ selStatus = "ok"
    /\ scanOk
    /\ lastLaw = NoLaw
    /\ runResult = "success"


(***************************************************************************)
(* Properties of LegifranceApiClient (checked under SpecClient)            *)
(***************************************************************************)

\* C6: for every request attempt sent to the registry, re-attempts made
\* after backoff sleeps included, a managed token whose expiryInstant is
\* earlier than the moment of sending has been refreshed before that attempt
\* is sent: the attempt never carries an expired token acquired earlier.
C6_ExpiredTokenRefreshedBeforeAttempt ==
    (sent # NoSent /\ sent.expiry # NoExpiry /\ sent.expiry < sent.at) =>
        sent.acquiredAt = sent.at

\* C7: a client constructed with a statically supplied token never calls the
\* token endpoint, whatever requests it makes and however much time passes:
\* its expiryInstant stays unset and every request carries the supplied token.
C7_StaticTokenNeverRefreshed ==
    ctorToken =>
        /\ tokenCalls = 0
        /\ tokenExpiry = NoExpiry
        /\ token = 0
        /\ sent # NoSent => sent.token = 0

\* C7 witness: a statically constructed client has sent a request after time
\* has passed and after a backoff sleep
C7_Witness ==
    /\ ctorToken
    /\ sent # NoSent
    /\ sent.at > StartTime + 2
    /\ cAttempt > 1

\* C8: when a request() begins with a managed token whose expiryInstant is in
\* the past and the token endpoint answers successfully, exactly one
\* acquireToken call occurs before the request is sent, and the request
\* carries the newly acquired token.
C8_OneRefreshBeforeRequest ==
    (sent # NoSent /\ req.expiry # NoExpiry /\ req.expiry < req.at) =>
        /\ tokenCalls = req.callsBefore + 1
        /\ token = req.tokenBefore + 1
        /\ sent.token = token

\* C8 witness: a request was sent by a request() that began with an expired
\* managed token, after an earlier refresh had already taken place
C8_Witness ==
    /\ sent # NoSent
    /\ req.expiry # NoExpiry
    /\ req.expiry < req.at
    /\ req.tokenBefore >= 2
    /\ sent.token = req.tokenBefore + 1

(***************************************************************************)
(* Properties of the retry decorator (checked under SpecRetry)             *)
(***************************************************************************)

\* an error the retry policy counts as retryable: one of the retryable kinds,
\* and not an HTTP error whose response status is outside the retryable codes
RetryableError(e) ==
    /\ \E cls \in {"NetworkError", "TimeoutError", "ServerError", "RateLimitError",
                   "ConnectionError", "Timeout", "HTTPError"} : IsInstance(e.kind, cls)
    /\ (e.kind = "HTTPError" /\ e.status # NoResponse) =>
           e.status \in {408, 429, 500, 502, 503, 504}

\* C9: for every maxAttempts >= 1, an operation that raises a retryable error
\* on every attempt is invoked exactly maxAttempts times, and the error that
\* reaches the caller is the one raised by the last attempt.
C9_RetryBounds ==
    (/\ policy.max_attempts >= 1
     /\ Len(rErrors) = rCalls
     /\ \A i \in DOMAIN rErrors : RetryableError(rErrors[i])) =>
        /\ rCalls <= policy.max_attempts
        /\ rOutcome # Running =>
              /\ rCalls = policy.max_attempts
              /\ rOutcome = [kind |-> "raised", exc |-> rErrors[rCalls]]
              /\ rOutcome.exc.id = policy.max_attempts

\* C9 witness: three attempts raised retryable errors of different kinds and
\* the third error reached the caller
C9_Witness ==
    /\ policy.max_attempts = 3
    /\ rCalls = 3
    /\ Len(rErrors) = 3
    /\ \A i \in DOMAIN rErrors : RetryableError(rErrors[i])
    /\ rErrors[1].kind # rErrors[3].kind
    /\ rOutcome = [kind |-> "raised", exc |-> rErrors[3]]

\* the kinds of the explored errors that are outside the retryable kinds
OutsideRetryableKinds ==
    {"ValidationError", "AuthenticationError", "DataParsingError", "LegifranceError"}

\* C10: an operation that raises an error outside the retryable kinds
\* (ValidationError, AuthenticationError, DataParsingError, ...) at its first
\* attempt is invoked exactly once, no sleep occurs, and that same error
\* reaches the caller.
C10_NonRetryableShortCircuit ==
    (rErrors # << >> /\ rErrors[1].kind \in OutsideRetryableKinds) =>
        /\ rCalls = 1
        /\ rSleeps = << >>
        /\ rOutcome = [kind |-> "raised", exc |-> rErrors[1]]

\* C10 witness: a ValidationError raised by the first attempt reached the
\* caller although two more attempts were allowed
C10_Witness ==
    /\ policy.max_attempts = 3
    /\ rCalls = 1
    /\ rErrors # << >>
    /\ rErrors[1].kind = "ValidationError"
    /\ rOutcome = [kind |-> "raised", exc |-> rErrors[1]]

\* C11: when an attempt raises RateLimitError with retry_after = r and
\* attempts remain, the sleep before the next attempt is exactly r seconds,
\* whatever retry_delay, backoff_factor and the number of earlier attempts.
C11_RateLimitHintIsTheSleep ==
    \A k \in DOMAIN rSleeps :
        (rErrors[k].kind = "RateLimitError" /\ rErrors[k].retry_after # NoHint) =>
            rSleeps[k] = rErrors[k].retry_after

\* C11 witness: the second attempt raised RateLimitError with retry_after = 7
\* after a first backoff sleep of another length, and the wrapper slept 7 s
C11_Witness ==
    /\ Len(rSleeps) >= 2
    /\ rErrors[1].kind = "NetworkError"
    /\ rErrors[2].kind = "RateLimitError"
    /\ rErrors[2].retry_after = 7
    /\ rSleeps[1] # 7
    /\ rSleeps[2] = 7

\* C12: for every policy, a call to the wrapped operation either returns a
\* value that an invocation of the operation returned or raises an error
\* that an invocation raised; it never returns None without the operation
\* having produced it.
C12_ResultComesFromOperation ==
    /\ rOutcome.kind \in {"running", "returned", "raised"}
    /\ rOutcome.kind = "returned" => (rOutcome.by \in 1..rCalls)
    /\ rOutcome.kind = "raised" =>
           \E i \in DOMAIN rErrors : rErrors[i] = rOutcome.exc

\* C14: when an attempt raises a raw requests.HTTPError whose response
\* status is not in the retryable status codes, the wrapper re-raises it
\* after that attempt: no sleep follows it and no further invocation is made.
C14_NonRetryableStatusRaisedAtOnce ==
    \A k \in DOMAIN rErrors :
        (/\ rErrors[k].kind = "HTTPError"
         /\ rErrors[k].status # NoResponse
         /\ rErrors[k].status \notin {408, 429, 500, 502, 503, 504}) =>
            /\ Len(rSleeps) < k
            /\ rCalls = k
            /\ rOutcome = [kind |-> "raised", exc |-> rErrors[k]]

\* no error raised so far carries a server retry hint
NoRetryHints ==
    \A i \in DOMAIN rErrors :
        rErrors[i].retry_after = NoHint /\ rErrors[i].header = NoHint

RECURSIVE Pow(_, _)
Pow(b, n) == IF n = 0 THEN 1 ELSE b * Pow(b, n - 1)

\* C15: absent server retry hints, the delay slept before attempt k+1 is
\* min(retry_delay * backoff_factor^(k-1), max_delay) for every policy, so
\* no backoff sleep exceeds max_delay.
C15_BackoffCapped ==
    NoRetryHints =>
        \A k \in DOMAIN rSleeps :
            /\ rSleeps[k] = Min(policy.retry_delay * Pow(policy.backoff_factor, k - 1),
                                policy.max_delay)
            /\ rSleeps[k] <= policy.max_delay


(***************************************************************************)
(* Properties of safe_request (checked under SpecHttp)                     *)
(***************************************************************************)

\* C13: a request made through safe_request that fails with HTTP status s
\* while attempts remain is re-attempted if and only if s is one of
\* 408, 429, 500, 502, 503, 504.
C13_ReattemptedIffRetryableStatus ==
    \A k \in DOMAIN rErrors :
        (responses[k].transport = "ok" /\ k < policy.max_attempts) =>
            (k \in DOMAIN rSleeps <=> responses[k].status \in {408, 429, 500, 502, 503, 504})

\* the error kind the classification rule assigns to a status
ExpectedKind(status) ==
    IF status \in {401, 403} THEN "AuthenticationError"
    ELSE IF status = 404 THEN "ResourceNotFoundError"
    ELSE IF status = 422 THEN "ValidationError"
    ELSE IF status = 429 THEN "RateLimitError"
    ELSE IF status \in 400..499 THEN "ClientError"
    ELSE IF status \in 500..599 THEN "ServerError"
    ELSE "APIError"

\* C16: for every HTTP response whose status is outside 200-299,
\* safe_request raises an error and never returns the response; the kind
\* raised is the one the classification rule assigns, and a RateLimitError
\* carries retry_after exactly when the Retry-After header is an integer.
C16_NonSuccessStatusRaisesClassified ==
    \A k \in DOMAIN responses :
        (responses[k].transport = "ok" /\ responses[k].status \notin 200..299) =>
            /\ k \in DOMAIN rErrors
            /\ rErrors[k].kind = ExpectedKind(responses[k].status)
            /\ rErrors[k].retry_after =
                  IF responses[k].status = 429 /\ responses[k].header \in {"0", "7"}
                  THEN IntOf(responses[k].header)
                  ELSE NoHint


(***************************************************************************)
(* Failure handling of the main workflow (checked under Spec)              *)
(***************************************************************************)

\* the current run ended in Step 2, without a selected record
EndedAtSelect ==
    /\ pc = "idle"
    /\ selStatus # "notrun"
    /\ lastLaw = NoLaw

\* C17: a run of main in which the scan for unprocessed records fails ends
\* with a raised error, and a run in which the scan succeeds and finds no
\* unprocessed record returns success: the two never end the same way.
C17_ScanFailureIsNotSuccess ==
    EndedAtSelect =>
        /\ ~scanOk => runResult # "success"
        /\ (scanOk /\ scanItems = << >>) => runResult = "success"

\* C18: if the store write that marks a record processed fails, the run of
\* main ends with a raised error and not as a successful run.
C18_FailedMarkIsNotSuccess ==
    (pc = "idle" /\ runMarked # {} /\ ~storeOk) => runResult # "success"

\* C19: if publish succeeds but the following mark-processed write fails,
\* the record stays isProcessed = false with its post counted, nothing in
\* the store tells that it was published, so a later run can select and
\* publish it again.
C19_FailedMarkLeavesRecordSelectable ==
    [][(pc = "mark" /\ publishedId = "id" /\ runMarked' # runMarked /\ ~storeOk') =>
          /\ store' = store
          /\ lastLaw.textId \in Unprocessed(store')
          /\ posts'[lastLaw.textId] >= 1]_vars

\* C19 witness: the only record of the store has two posts and has never
\* been isProcessed = true: the mark after the first publish failed and the
\* next run selected and published the record again
C19_Witness ==
    /\ runs = 2
    /\ DOMAIN store = {"L1_21"}
    /\ posts["L1_21"] = 2
    /\ everProcessed = {}
    /\ "L1_21" \in Unprocessed(store)


(***************************************************************************)
(* Properties of overlapping runs (checked under SpecPar)                  *)
(***************************************************************************)

\* C20: no step of a run between select-oldest-unprocessed and
\* markProcessed changes the store, so nothing excludes a second run: two
\* overlapping runs can select the same unprocessed record and both
\* publish it.
C20_NothingExcludesSecondRun ==
    [][\A p \in Runs :
          (/\ par[p].pc \in {"select", "fetch", "process", "publish", "comment"}
           /\ par'[p] # par[p]
           /\ ~(par[p].pc = "process" /\ ~par[p].details.articles)) =>
              store' = store]_vars

\* C20 witness: both runs selected the same record, both published it, and
\* neither has marked it yet
C20_Witness ==
    /\ par[1].pc = "mark"
    /\ par[2].pc = "mark"
    /\ par[1].lastLaw = par[2].lastLaw
    /\ par[1].publishedId = "id"
    /\ par[2].publishedId = "id"
    /\ posts[par[1].lastLaw.textId] = 2
    /\ par[1].lastLaw.textId \in Unprocessed(store)

\* C21: with two runs interleaved, the put of a sync pass whose existence check
\* truly found no record for X leaves alone a record for X that the other
\* run inserted or marked processed between that check and this put.
C21_PutAfterCheckLeavesOthersRecord ==
    [][\A p \in Runs :
         (/\ par[p].pc = "put"
          /\ par'[p].pc = "syncing"
          /\ par[p].pending.absentAtCheck
          /\ par[p].pending.textId \in DOMAIN store)
         => store'[par[p].pending.textId] = store[par[p].pending.textId]]_vars

(***************************************************************************)
(* Properties of the publisher (checked under SpecPub)                     *)
(***************************************************************************)
\* C22: wait_for_media_processing makes at most max_attempts status checks;
\* a check that reports FINISHED or ERROR is the last one: the call returns
\* on the first FINISHED and raises PublishingError on the first ERROR; and
\* when every one of the max_attempts checks reported another status, it
\* raises the timeout PublishingError, whose total_wait_time is
\* max_attempts * sleep_interval.
C22_WaitTerminates ==
    LET n == Len(pStatuses)
        direct == pArgs.entry = "wait" /\ ppc = "done"
    IN pArgs.entry \in {"wait", "main"} =>
         /\ n <= pArgs.max_attempts
         /\ \A i \in 1..n : pStatuses[i] \in {"FINISHED", "ERROR"} => i = n
         /\ (ppc = "wait" /\ n > 0) => pStatuses[n] = "IN_PROGRESS"
         /\ (direct /\ n > 0 /\ pStatuses[n] = "FINISHED") => pResult = PubReturn("FINISHED")
         /\ (direct /\ n > 0 /\ pStatuses[n] = "ERROR") =>
                (pResult.kind = "PublishingError" /\ pResult.total_wait_time = NoTotalWait)
         /\ (direct /\ \A i \in 1..n : pStatuses[i] = "IN_PROGRESS") =>
                /\ n = pArgs.max_attempts
                /\ pResult.kind = "PublishingError"
                /\ pResult.total_wait_time = pArgs.max_attempts * pArgs.sleep_interval
         /\ pResult.total_wait_time # NoTotalWait =>
                /\ n = pArgs.max_attempts
                /\ \A i \in 1..n : pStatuses[i] = "IN_PROGRESS"
                /\ pResult.kind = "PublishingError"
                /\ pResult.total_wait_time = pArgs.max_attempts * pArgs.sleep_interval

\* C22 witness: a direct call with the largest max_attempts polled that many
\* times, never saw FINISHED or ERROR, and raised the timeout error
C22_Witness ==
    /\ pArgs.entry = "wait"
    /\ ppc = "done"
    /\ pArgs.max_attempts = MaxPollArg
    /\ pArgs.sleep_interval = DefaultSleepInterval
    /\ Len(pStatuses) = MaxPollArg
    /\ pResult.kind = "PublishingError"
    /\ pResult.total_wait_time = MaxPollArg * DefaultSleepInterval

\* C23: publish() requests publish_post only for a creation id for which
\* create_media_object returned and a status poll reported FINISHED; the
\* three steps run in the order create, poll, post.
C23_PostOnlyAfterFinished ==
    /\ \A c \in pPostRequested : c \in pFinished /\ c \in 1..pCreationId
    /\ \A c \in pFinished : c \in 1..pCreationId
    /\ ppc = "post" => pCreationId \in pFinished
    /\ ppc = "wait" => pCreationId > 0 /\ pCreationId \notin pPostRequested
    /\ pCalls.post > 0 => (pCalls.create > 0 /\ pCalls.wait > 0)
    /\ pCalls.wait > 0 /\ pArgs.entry = "main" => pCalls.create > 0

\* C23 witness: a run polled the status more than once, saw FINISHED, and
\* requested publish_post for that creation id
C23_Witness ==
    /\ pArgs.entry = "main"
    /\ Len(pStatuses) > 1
    /\ pCreationId \in pPostRequested
    /\ pPublishedId = "id"

\* C24: once an error has left a publisher method in a run of main(), the
\* run calls no publisher method again: in particular create_media_object is
\* not called again after it or a later step has failed.
C24_NoPublisherCallAfterFailure ==
    [][pStepFailed => pCalls' = pCalls]_vars

\* C25: create_media_object and publish_post raise PublishingError when the
\* response body is JSON without an id.
C25_MissingIdRaisesPublishingError ==
    (pLast.step \in {"create", "post"} /\ pLast.outcome = "missing") =>
        pLast.raised = "PublishingError"

(***************************************************************************)
(* The comment step of the main workflow (checked under Spec)              *)
(***************************************************************************)
\* C26: when comment_on_post fails after publish returned a published id, the
\* failure is swallowed: the run goes on to mark the selected record
\* processed (the record is processed when that store write succeeds) and
\* main() ends as a success.
C26_CommentFailureSwallowed ==
    /\ (~commentOk /\ pc = "mark") => publishedId # "unset"
    /\ (~commentOk /\ pc = "idle" /\ PublishedIdTruthy(publishedId)) =>
          /\ runResult = "success"
          /\ runMarked = {lastLaw.textId}
          /\ storeOk => lastLaw.textId \in Processed(store)

\* C26 witness: the comment failed, and the run ended as a success with the
\* selected record processed
C26_Witness ==
    /\ ~commentOk
    /\ pc = "idle"
    /\ publishedId = "id"
    /\ runResult = "success"
    /\ lastLaw.textId \in Processed(store)

(***************************************************************************)
(* Construction of LegifranceApiClient (checked under SpecClient)          *)
(***************************************************************************)
\* C27: when the token endpoint answers the constructor's token request with
\* a body that is not valid JSON, constructing the client from credentials
\* fails with DataParsingError: the error is not wrapped and there is no
\* client object.
C27_NonJsonTokenFailsConstruction ==
    (~ctorToken /\ tokenCalls = 0 /\ lastTokenCall.answer = "nonjson") =>
        /\ lastTokenCall.raised = "DataParsingError"
        /\ cpc = "noclient"

\* C27 witness: a construction from credentials that got a non-JSON answer
C27_Witness ==
    /\ ~ctorToken
    /\ lastTokenCall = [answer |-> "nonjson", raised |-> "DataParsingError"]
    /\ cpc = "noclient"

(***************************************************************************)
(* Errors that leave main() (checked under SpecPub)                        *)
(***************************************************************************)
\* C28: every error that leaves main() after a record has been selected
\* carries that record's textId in its details, whichever step failed.
C28_ErrorCarriesTextId ==
    (pArgs.entry = "main" /\ ppc = "done" /\ pResult.kind # "None") =>
        pResult.law_id = pArgs.law

\* C29: extract_legifrance_url returns
\* https://www.legifrance.gouv.fr/<doc_type>/id/<cid>, with doc_type "jorf"
\* when the argument is omitted, for every detail object whose cid is not
\* empty, and raises DataIntegrityError when cid is absent or None.
C29_ExtractUrl ==
    (pArgs.entry = "extract" /\ ppc = "done") =>
        LET d == IF pArgs.doc_type = NoDocType THEN "jorf" ELSE pArgs.doc_type
        IN /\ pArgs.cid \notin {NoCid, ""} =>
                 /\ pResult.kind = "None"
                 /\ pResult.value = "https://www.legifrance.gouv.fr/" \o d \o "/id/" \o pArgs.cid
           /\ pArgs.cid = NoCid => pResult.kind = "DataIntegrityError"

\* C29 witness: a call without doc_type returned the jorf URL of the cid
C29_Witness ==
    /\ pArgs.entry = "extract"
    /\ pArgs.doc_type = NoDocType
    /\ pArgs.cid = "JORFTEXT1"
    /\ pResult.value = "https://www.legifrance.gouv.fr/jorf/id/JORFTEXT1"

(***************************************************************************)
(* Dates taken from the text ids (checked under Spec)                      *)
(***************************************************************************)
\* the fields of a DD-MM date in the order of their weight: the month, then the day
ByWeight(d) == <<d[2], d[1]>>

\* C30: when every unprocessed record is one written by
\* sync_new_law_to_dynamodb with the date part of its id (DD-MM-YYYY),
\* get_last_unprocessed_law returns the unprocessed record whose date is
\* chronologically the earliest.
C30_SelectsChronologicallyEarliest ==
    (/\ AfterSelect
     /\ \A id \in Unprocessed(store) :
           store[id].date = IdDatePart(id) /\ store[id].date # NoneDate) =>
        (/\ (lastLaw = NoLaw) <=> (Unprocessed(store) = {})
         /\ lastLaw # NoLaw =>
               \A id \in Unprocessed(store) :
                   ~StrLess(ByWeight(store[id].date), ByWeight(lastLaw.date)))

(***************************************************************************)
(* The count of a sync pass (checked under SpecSync)                       *)
(***************************************************************************)
\* C31: the number of new laws a sync pass reports equals the number of records
\* added to the store during that pass, including when a store write fails.
C31_SyncCountIsRecordsAdded ==
    syncLeft = 0 => syncCount = syncAdded

\* C32: the handler answers statusCode 200 exactly when main() returned normally,
\* and for every error main() raised it answers statusCode 500 with the error text.
C32_HandlerStatus ==
    (pc = "idle" /\ runs > 0) =>
        /\ lambdaResponse.statusCode = 200 <=> runResult = "success"
        /\ runResult # "success" =>
               lambdaResponse = [statusCode |-> 500, body |-> runResult]

C32_Witness ==
    /\ pc = "idle"
    /\ runResult = "PublishingError"
    /\ lambdaResponse.statusCode = 500

\* C33: each publisher step (create-media, publish-post, comment) sends at most 3
\* HTTP requests before its error propagates, whatever the retryable error is
\* (429, 5xx, timeout, connection failure).
C33_StepSendsAtMostThree ==
    (nCall \in PublisherSteps /\ nOutcome.kind = "raised" /\ nAllRetryable) => nHttp <= 3

\* C40: a registry call (fetch_loda_list, fetch_legi_consult) whose HTTP request
\* fails on every attempt with a retryable error sends exactly 3 HTTP requests in
\* total, although three retry wrappers are nested around the request.
C40_RegistryCallSendsThree ==
    (nCall \in RegistryCalls /\ nOutcome.kind = "raised" /\ nAllRetryable) => nHttp = 3

C40_Witness ==
    /\ nCall = "fetch_loda_list"
    /\ nAllRetryable
    /\ nHttp = 3
    /\ nOutcome.kind = "raised"
    /\ nOutcome.exc.kind = "LegifranceError"
    /\ nAtt = <<3, 1, 1>>

\* C34: marking a textId processed when the store holds no record with that textId
\* does not add a record.
C34_MarkAbsentAddsNothing ==
    [][\A id \in TextIds, ok \in BOOLEAN :
           (SyncMark(id, ok) /\ id \notin DOMAIN store) => DOMAIN store' = DOMAIN store]_vars

\* C38: immediately after a successful token acquisition (no time has passed since
\* _get_access_token stored the token) the stored token counts as fresh: its expiry
\* is later than the current time and _ensure_token does not refresh it, for every
\* expires_in the token endpoint answers with.
C38_AcquiredTokenIsFresh ==
    (token > 0 /\ acquiredAt = now) =>
        (tokenExpiry > now /\ ~TokenExpired(tokenExpiry, now))

\* C39: whenever ensure_valid_token returns a token T, current_token equals T
\* afterwards, in every branch and whether the secrets-store update succeeded or
\* failed.
C39_ReturnedTokenIsCurrent ==
    igResult.kind = "returned" => igToken = igResult.token

\* C37: within one run of main(), at most one record is marked processed and
\* publish_post returns successfully at most once, also when the retry wrapper of
\* process_and_publish_law calls the function a second time.
C37_OneMarkOnePostPerRun ==
    pArgs.entry = "main" => (pMarks <= 1 /\ pPosted <= 1)

C37_Witness ==
    /\ pArgs.entry = "main"
    /\ ppc = "done"
    /\ pOuter = ProcessMaxAttempts
    /\ pPosted = 1
    /\ pMarks = 1
    /\ pCalls.create > 1

(***************************************************************************)
(* Progress of repeated runs (checked under SpecLive)                      *)
(***************************************************************************)
\* every record of the table has a date a law can be fetched with
AllDated == \A id \in DOMAIN store : Truthy(store[id].date)

\* C35: a record whose fetch, generation or publication fails on every run does
\* not prevent the other unprocessed records from being marked processed
\* eventually: every unprocessed record that is not a failing one is eventually
\* processed.
C35_FailingRecordDoesNotBlock ==
    \A id \in TextIds :
        (AllDated /\ id \in Unprocessed(store) /\ id \notin failing)
            ~> (id \in Processed(store))

\* no record fails in every run, and every law can be fetched
NoStepFails == failing = {} /\ AllDated

\* a run that marks a record marks the unprocessed record with the earliest date
MarksInDateOrder ==
    [][(NoStepFails /\ runMarked' # runMarked /\ runMarked' # {}) =>
           \E id \in Unprocessed(store) :
               /\ runMarked' = {id}
               /\ Unprocessed(store') = Unprocessed(store) \ {id}
               /\ \A j \in Unprocessed(store) :
                      ~StrLess(ByWeight(store[j].date), ByWeight(store[id].date))]_vars

\* a run ends having marked exactly one record, or none when none was unprocessed
MarksOnePerRun ==
    [][(NoStepFails /\ pc # "idle" /\ pc' = "idle") =>
           IF Unprocessed(store) = {} THEN runMarked' = {} /\ runResult' = "success"
           ELSE Cardinality(runMarked') = 1]_vars

\* every record is eventually processed
AllEventuallyProcessed ==
    \A id \in TextIds : (NoStepFails /\ id \in DOMAIN store) ~> (id \in Processed(store))

\* C36: if no step fails and no new law appears, repeated runs mark exactly one
\* unprocessed record per run, in ascending date order, until the selection
\* returns none, and every record is eventually processed.
C36_RepeatedRunsDrainInDateOrder ==
    MarksInDateOrder /\ MarksOnePerRun /\ AllEventuallyProcessed

====
